---- MODULE Spec2Model ----
(***************************************************************************)
(* A state-machine model of the orchestration layer of the compliance      *)
(* engine: the four Temporal workflows of backend/workflows/workflows.py   *)
(* (RuleVerification, ComplianceCheck, CounterfactualAnalysis,             *)
(* DriftDetection), the activities they call and the retry policy every    *)
(* call carries.                                                           *)
(*                                                                         *)
(* A workflow body is a coroutine: it runs from one suspension point       *)
(* (an await on an activity or on asyncio.gather) to the next without      *)
(* interruption, so one action of the model is one such stretch of code.   *)
(* Signals and activity attempts are the environment's actions and may     *)
(* fall between any two stretches.                                         *)
(***************************************************************************)
EXTENDS Integers, Sequences, FiniteSets, TLC

(***************************************************************************)
(* Bounds of the model.                                                    *)
(***************************************************************************)
\* how many tiers input.skip_tiers may list
MaxSkipInput == 1
\* how many skip_tier signals are delivered to one run
MaxSignals == 1

(***************************************************************************)
(* Optional values: None is the empty tuple, a value v is <<v>>.           *)
(***************************************************************************)
Null == <<>>
Some(v) == <<v>>

RECURSIVE SumScores(_)
SumScores(rs) == IF rs = <<>> THEN 0 ELSE rs[1].score + SumScores(Tail(rs))

Range(s) == {s[i] : i \in 1..Len(s)}

(***************************************************************************)
(* Activity calls and DEFAULT_RETRY_POLICY.                                *)
(***************************************************************************)
maximum_attempts == 3

\* why an attempt can fail; a start_to_close timeout is one of the failures
TransientFailures == {"timeout", "unavailable"}

NoCall == [state |-> "none", attempt |-> 0, result |-> Null, msg |-> Null]
NewCall == [state |-> "inflight", attempt |-> 1, result |-> Null, msg |-> Null]

\* a faulty policy that grants one attempt more
ShouldRetryOnceMore(attempt, reason) == attempt < maximum_attempts + 1

\* The policy names no non_retryable_error_types: every failure is retried
\* until maximum_attempts attempts have been made.
ShouldRetry(attempt, reason) == attempt < maximum_attempts

\* the workflow is handed the result; the attempt that gave it is not kept
AttemptSucceeds(c, r) ==
  [c EXCEPT !.state = "ok", !.attempt = 0, !.result = Some(r)]

\* a faulty policy without a cap: after the last attempt it starts over
AttemptFailsStartsOver(c, reason) ==
  IF ShouldRetry(c.attempt, reason)
  THEN [c EXCEPT !.attempt = @ + 1]
  ELSE [c EXCEPT !.attempt = 1]

\* an attempt fails: the policy retries it, or the call fails for good
AttemptFails(c, reason) ==
  IF ShouldRetry(c.attempt, reason)
  THEN [c EXCEPT !.attempt = @ + 1]
  ELSE [c EXCEPT !.state = "failed", !.msg = Some(reason)]

(***************************************************************************)
(* WorkflowStatus and VerificationTier (schemas.py).                       *)
(***************************************************************************)
WorkflowStatus ==
  {"pending", "running", "completed", "failed", "cancelled", "timed_out"}

VerificationTier == 0..4
all_tiers == <<0, 1, 2, 3, 4>>

WorkflowTypes ==
  {"RuleVerificationWorkflow", "ComplianceCheckWorkflow",
   "CounterfactualAnalysisWorkflow", "DriftDetectionWorkflow"}

VARIABLES
  workflow_type,      \* the workflow the client started
  rule_exists,        \* the rule store holds input.rule_id
  rv_input,           \* RuleVerificationInput
  rv_pc,              \* where the body of run is suspended
  rv_status, rv_current_tier, rv_tier_results, rv_tiers_completed,
  rv_tiers_remaining, rv_skip_tiers, rv_stopped_early, rv_stop_reason,
  rv_error,
  rv_iter,            \* what is left of list(self._tiers_remaining) in the loop
  rv_call,            \* the activity call the body awaits
  rv_call_name,       \* its activity
  rv_output,          \* what run returned
  rv_dispatched,      \* history: the activities dispatched, in order
  rv_returned,        \* history: the results the tier activities returned
  rv_signals,         \* history: number of skip_tier signals delivered
  rv_timely_skips     \* history: tiers signalled before their dispatch

rvVars ==
  <<rule_exists, rv_input, rv_pc, rv_status, rv_current_tier, rv_tier_results,
    rv_tiers_completed, rv_tiers_remaining, rv_skip_tiers, rv_stopped_early,
    rv_stop_reason, rv_error, rv_iter, rv_call, rv_call_name, rv_output,
    rv_dispatched, rv_returned, rv_signals, rv_timely_skips>>

VARIABLES
  cc_input,           \* ComplianceCheckInput
  cc_pc,              \* where the body of run is suspended
  cc_status, cc_current_phase, cc_total_jurisdictions,
  cc_completed_jurisdictions, cc_jurisdiction_results, cc_equivalences,
  cc_conflicts, cc_pathway, cc_obligations, cc_error,
  cc_calls,           \* the activity calls of the run, by activity
  cc_output,          \* what run returned
  cc_dispatched       \* history: the sets of activities dispatched, in order

ccVars ==
  <<cc_input, cc_pc, cc_status, cc_current_phase, cc_total_jurisdictions,
    cc_completed_jurisdictions, cc_jurisdiction_results, cc_equivalences,
    cc_conflicts, cc_pathway, cc_obligations, cc_error, cc_calls, cc_output,
    cc_dispatched>>

VARIABLES
  cf_input,           \* CounterfactualInput
  cf_pc,              \* where the body of run is suspended
  cf_status, cf_total_scenarios, cf_completed_scenarios, cf_current_scenario,
  cf_baseline_result, cf_scenario_results, cf_delta_analyses, cf_error,
  cf_calls,           \* the activity calls of the run, by activity
  cf_output,          \* what run returned
  cf_dispatched,      \* history: the sets of activities dispatched, in order
  cf_evaluated        \* history: the engine's decision on the baseline facts

cfVars ==
  <<cf_input, cf_pc, cf_status, cf_total_scenarios, cf_completed_scenarios,
    cf_current_scenario, cf_baseline_result, cf_scenario_results,
    cf_delta_analyses, cf_error, cf_calls, cf_output, cf_dispatched,
    cf_evaluated>>

VARIABLES
  dd_input,           \* DriftDetectionInput
  dd_pc,              \* where the body of run is suspended
  dd_status, dd_total_rules, dd_checked_rules, dd_drift_detected,
  dd_drift_results, dd_notifications_sent, dd_error,
  dd_rule_ids,        \* the local rule_ids of run
  dd_i,               \* the batch loop's index i
  dd_checks,          \* the check_rule_drift_activity calls, by rule id
  dd_call,            \* the single activity call the body awaits
  dd_output,          \* what run returned
  dd_dispatched       \* history: the batches of checks dispatched, in order

ddVars ==
  <<dd_input, dd_pc, dd_status, dd_total_rules, dd_checked_rules,
    dd_drift_detected, dd_drift_results, dd_notifications_sent, dd_error,
    dd_rule_ids, dd_i, dd_checks, dd_call, dd_output, dd_dispatched>>

VARIABLES
  xr_rule,            \* the primary rule handed to the CrossRuleChecker
  xr_related_rules,   \* CrossRuleChecker.related_rules
  xr_contradiction,   \* what check_contradiction computed, once called
  xr_hierarchy,       \* what check_hierarchy computed, once called
  xr_temporal,        \* what check_temporal_consistency computed, once called
  xr_all              \* the list check_all returned, once called

xrVars ==
  <<xr_rule, xr_related_rules, xr_contradiction, xr_hierarchy, xr_temporal,
    xr_all>>

VARIABLES
  nli_use_ml,         \* NLIChecker.use_ml
  nli_premise,        \* the source text check_entailment is called with
  nli_hypotheses,     \* the hypotheses extracted from the rule
  nli_results,        \* check_entailment's results list, one per hypothesis
  nli_aggregated      \* what _aggregate_results returned, once called

nliVars ==
  <<nli_use_ml, nli_premise, nli_hypotheses, nli_results, nli_aggregated>>

VARIABLES
  sim_text1,          \* the texts _compute_heuristic_similarity is called with
  sim_text2,
  sim_result,         \* the SimilarityResult it returned, once called
  sim_previous        \* the result of the call before, the texts exchanged

simVars == <<sim_text1, sim_text2, sim_result, sim_previous>>

VARIABLES
  ml_available,       \* embedding_available()
  ml_model,           \* EmbeddingChecker._model
  ml_model_loaded,    \* EmbeddingChecker._model_loaded
  ml_pc,              \* where each caller of _get_model stands
  ml_built,           \* what the constructor call of each caller produced
  ml_returned,        \* what _get_model returned to each caller
  ml_constructions    \* how many times SentenceTransformer(...) was executed

mlVars ==
  <<ml_available, ml_model, ml_model_loaded, ml_pc, ml_built, ml_returned,
    ml_constructions>>

VARIABLES
  ta_tier,            \* which verify_tier_N_activity is called, N in 1..4
  ta_rule_found,      \* whether loader.get_rule(rule_id) finds the rule
  ta_evidence,        \* the evidence the checks of that tier produce
  ta_fail_fast,       \* input.fail_fast of the workflow that called it
  ta_result,          \* the TierResult the activity returned, once called
  ta_stops            \* whether the workflow then stopped early, once tested

taVars ==
  <<ta_tier, ta_rule_found, ta_evidence, ta_fail_fast, ta_result, ta_stops>>

VARIABLES
  fb_checker,         \* which checker is called: "nli" or "embedding"
  fb_use_ml,          \* its use_ml
  fb_text1,           \* premise, or text1
  fb_text2,           \* hypothesis, or text2
  fb_model,           \* what _get_pipeline() or _get_model() returns
  fb_inference,       \* what the model call gave, none when it raised
  fb_result           \* what the call returned or raised, once made

fbVars ==
  <<fb_checker, fb_use_ml, fb_text1, fb_text2, fb_model, fb_inference, fb_result>>

VARIABLES
  rd_rule_found,      \* whether loader.get_rule(rule_id) finds the rule
  rd_evidence,        \* result.evidence of engine.verify_rule(rule, tiers=[0])
  rd_result           \* the RuleDriftResult the activity returned, once called

rdVars == <<rd_rule_found, rd_evidence, rd_result>>

\* the state of the checkers other than CrossRuleChecker
checkerVars == <<nliVars, simVars, mlVars, taVars, fbVars, rdVars>>

vars == <<workflow_type, rvVars, ccVars, cfVars, ddVars, xrVars, checkerVars>>

\* what a step of one workflow leaves alone
notRV == <<ccVars, cfVars, ddVars, xrVars, checkerVars>>
notCC == <<rvVars, cfVars, ddVars, xrVars, checkerVars>>
notCF == <<rvVars, ccVars, ddVars, xrVars, checkerVars>>
notDD == <<rvVars, ccVars, cfVars, xrVars, checkerVars>>

(***************************************************************************)
(* RuleVerificationWorkflow                                                *)
(***************************************************************************)
load_rule_activity == <<"load_rule_activity">>
tier_activities(t) == <<"verify_tier_activity", t>>

\* what a verify_tier_N_activity can return: passed is "no evidence is
\* labelled fail", score the mean of the evidence scores (in tenths)
TierOutcomes ==
  {[passed |-> TRUE, score |-> 10], [passed |-> FALSE, score |-> 2]}

RVInputs ==
  {[max_tier |-> m, skip_tiers |-> s, fail_fast |-> f] :
     m \in VerificationTier,
     s \in {x \in SUBSET VerificationTier : Cardinality(x) <= MaxSkipInput},
     f \in BOOLEAN}

DefaultRVInput == [max_tier |-> 4, skip_tiers |-> {}, fail_fast |-> TRUE]

\* RuleVerificationWorkflow.__init__
RVConstructed ==
  /\ rv_pc = "init"
  /\ rv_status = "pending"
  /\ rv_current_tier = Null
  /\ rv_tier_results = <<>>
  /\ rv_tiers_completed = <<>>
  /\ rv_tiers_remaining = <<>>
  /\ rv_skip_tiers = {}
  /\ rv_stopped_early = FALSE
  /\ rv_stop_reason = Null
  /\ rv_error = Null
  /\ rv_iter = <<>>
  /\ rv_call = NoCall
  /\ rv_call_name = Null
  /\ rv_output = Null
  /\ rv_dispatched = <<>>
  /\ rv_returned = <<>>
  /\ rv_signals = 0
  /\ rv_timely_skips = {}

RVInit ==
  /\ rv_input \in RVInputs
  /\ rule_exists \in BOOLEAN
  /\ RVConstructed

RVIdle ==
  /\ rv_input = DefaultRVInput
  /\ rule_exists = TRUE
  /\ RVConstructed

DispatchedTiers ==
  {rv_dispatched[i][2] :
     i \in {j \in 1..Len(rv_dispatched) : Len(rv_dispatched[j]) = 2}}

\* @workflow.signal skip_tier
SkipTierHandler(skip, tier) == skip \cup {tier}

RVSkipTier(tier) ==
  /\ workflow_type = "RuleVerificationWorkflow"
  /\ rv_pc # "done"
  /\ rv_signals < MaxSignals
  /\ rv_signals' = rv_signals + 1
  /\ rv_skip_tiers' = SkipTierHandler(rv_skip_tiers, tier)
  /\ rv_timely_skips' =
       IF tier \in DispatchedTiers THEN rv_timely_skips
       ELSE rv_timely_skips \cup {tier}
  /\ UNCHANGED <<notRV, workflow_type, rule_exists, rv_input, rv_pc, rv_status,
                 rv_current_tier, rv_tier_results, rv_tiers_completed,
                 rv_tiers_remaining, rv_stopped_early, rv_stop_reason,
                 rv_error, rv_iter, rv_call, rv_call_name, rv_output,
                 rv_dispatched, rv_returned>>

\* a faulty selection that forgets the max_tier limit
TiersToExecuteNoLimit(max_tier, skip) ==
  SelectSeq(all_tiers, LAMBDA t : t \notin skip)

\* the tiers the run will execute: at most max_tier and not skipped
TiersToExecute(max_tier, skip) ==
  SelectSeq(all_tiers, LAMBDA t : t <= max_tier /\ t \notin skip)

\* a faulty run that does not set _status to RUNNING
RVStartStillPending ==
  /\ workflow_type = "RuleVerificationWorkflow"
  /\ rv_pc = "init"
  /\ rv_skip_tiers' = rv_skip_tiers \cup rv_input.skip_tiers
  /\ rv_tiers_remaining' = TiersToExecute(rv_input.max_tier, rv_skip_tiers')
  /\ rv_call' = NewCall
  /\ rv_call_name' = Some(load_rule_activity)
  /\ rv_dispatched' = Append(rv_dispatched, load_rule_activity)
  /\ rv_pc' = "load"
  /\ UNCHANGED <<notRV, workflow_type, rule_exists, rv_input, rv_current_tier,
                 rv_tier_results, rv_tiers_completed, rv_stopped_early,
                 rv_stop_reason, rv_error, rv_iter, rv_output, rv_signals,
                 rv_timely_skips, rv_returned, rv_status>>

\* run, up to the await on load_rule_activity
RVStart ==
  /\ workflow_type = "RuleVerificationWorkflow"
  /\ rv_pc = "init"
  /\ rv_status' = "running"
  /\ rv_skip_tiers' = rv_skip_tiers \cup rv_input.skip_tiers
  /\ rv_tiers_remaining' = TiersToExecute(rv_input.max_tier, rv_skip_tiers')
  /\ rv_call' = NewCall
  /\ rv_call_name' = Some(load_rule_activity)
  /\ rv_dispatched' = Append(rv_dispatched, load_rule_activity)
  /\ rv_pc' = "load"
  /\ UNCHANGED <<notRV, workflow_type, rule_exists, rv_input, rv_current_tier,
                 rv_tier_results, rv_tiers_completed, rv_stopped_early,
                 rv_stop_reason, rv_error, rv_iter, rv_output, rv_signals,
                 rv_timely_skips, rv_returned>>

\* a faulty loop header that never looks at the skip set
IsSkippedNever(tier, skip) == FALSE

\* the loop header's test "if tier in self._skip_tiers"
IsSkipped(tier, skip) == tier \in skip

\* index of the first tier of iter the loop does not skip, 0 when none
FirstRunnable(iter, skip) ==
  LET run == {i \in 1..Len(iter) : ~IsSkipped(iter[i], skip)}
  IN IF run = {} THEN 0 ELSE CHOOSE i \in run : \A j \in run : i <= j

\* a faulty scan that takes the first passed tier instead of the last
HighestPassedForward(results) ==
  LET ok == {i \in 1..Len(results) : results[i].passed}
  IN IF ok = {} THEN Null
     ELSE Some(results[CHOOSE i \in ok : \A j \in ok : i <= j].tier)

\* "Compute final results"
HighestPassed(results) ==
  LET ok == {i \in 1..Len(results) : results[i].passed}
  IN IF ok = {} THEN Null
     ELSE Some(results[CHOOSE i \in ok : \A j \in ok : j <= i].tier)

AvgScore(results) ==
  IF results # <<>>
  THEN [num |-> SumScores(results), den |-> Len(results)]
  ELSE [num |-> 0, den |-> 1]

\* a faulty conjunction that does not pass a run without results
OverallPassedSomeResult(results) ==
  results # <<>> /\ \A i \in 1..Len(results) : results[i].passed

\* "all(r.passed for r in self._tier_results)"
OverallPassed(results) == \A i \in 1..Len(results) : results[i].passed

\* a faulty early-termination test that never breaks out of the loop
StopsEarlyNever(fail_fast, result) == FALSE

\* the early-termination test after a tier
StopsEarly(fail_fast, result) == fail_fast /\ ~result.passed

StopReason(tier) == <<"Tier", tier, "failed">>

\* the successful return of run
RVComplete(results, stopped, reason) ==
  /\ rv_status' = "completed"
  /\ rv_current_tier' = Null
  /\ rv_pc' = "done"
  /\ rv_call' = NoCall
  /\ rv_call_name' = Null
  /\ rv_iter' = <<>>
  /\ rv_output' =
       Some([status |-> "completed",
             tier_results |-> results,
             highest_tier_passed |-> HighestPassed(results),
             overall_score |-> AvgScore(results),
             overall_passed |-> OverallPassed(results),
             stopped_early |-> stopped,
             stop_reason |-> reason,
             error |-> Null])
  /\ UNCHANGED rv_dispatched

\* the for loop from its header to the next await, or to the end of run
RVLoop(iter, results, remaining) ==
  LET i == FirstRunnable(iter, rv_skip_tiers)
      passedOver == IF i = 0 THEN Range(iter)
                    ELSE {iter[j] : j \in 1..(i - 1)}
      left == SelectSeq(remaining, LAMBDA t : t \notin passedOver)
  IN /\ rv_tiers_remaining' = left
     /\ IF i = 0
        THEN RVComplete(results, FALSE, Null)
        ELSE /\ rv_current_tier' = Some(iter[i])
             /\ rv_call' = NewCall
             /\ rv_call_name' = Some(tier_activities(iter[i]))
             /\ rv_dispatched' = Append(rv_dispatched, tier_activities(iter[i]))
             /\ rv_iter' = SubSeq(iter, i + 1, Len(iter))
             /\ rv_pc' = "tier"
             /\ UNCHANGED <<rv_status, rv_output>>

\* load_rule_activity returned: enter the loop over list(self._tiers_remaining)
RVAfterLoad ==
  /\ rv_pc = "load"
  /\ rv_call.state = "ok"
  /\ RVLoop(rv_tiers_remaining, rv_tier_results, rv_tiers_remaining)
  /\ UNCHANGED <<notRV, workflow_type, rule_exists, rv_input, rv_tier_results,
                 rv_tiers_completed, rv_skip_tiers, rv_stopped_early,
                 rv_stop_reason, rv_error, rv_signals, rv_timely_skips,
                 rv_returned>>

\* a faulty continuation that looks at the skip set again after the await and
\* drops the result of a tier signalled meanwhile
RVAfterTierUnlessSkipped ==
  /\ rv_pc = "tier"
  /\ rv_call.state = "ok"
  /\ LET result == rv_call.result[1]
         tier == rv_current_tier[1]
         results == IF tier \in rv_skip_tiers THEN rv_tier_results
                    ELSE Append(rv_tier_results, result)
         remaining == SelectSeq(rv_tiers_remaining, LAMBDA t : t # tier)
     IN /\ rv_tier_results' = results
        /\ rv_tiers_completed' = Append(rv_tiers_completed, tier)
        /\ IF StopsEarly(rv_input.fail_fast, result)
           THEN /\ rv_stopped_early' = TRUE
                /\ rv_stop_reason' = Some(StopReason(tier))
                /\ rv_tiers_remaining' = remaining
                /\ RVComplete(results, TRUE, Some(StopReason(tier)))
           ELSE /\ RVLoop(rv_iter, results, remaining)
                /\ UNCHANGED <<rv_stopped_early, rv_stop_reason>>
  /\ UNCHANGED <<notRV, workflow_type, rule_exists, rv_input, rv_skip_tiers,
                 rv_error, rv_signals, rv_timely_skips, rv_returned>>

\* a faulty continuation that forgets "self._tiers_remaining.remove(tier)"
RVAfterTierKeepsRemaining ==
  /\ rv_pc = "tier"
  /\ rv_call.state = "ok"
  /\ LET result == rv_call.result[1]
         tier == rv_current_tier[1]
         results == Append(rv_tier_results, result)
         remaining == rv_tiers_remaining
     IN /\ rv_tier_results' = results
        /\ rv_tiers_completed' = Append(rv_tiers_completed, tier)
        /\ IF StopsEarly(rv_input.fail_fast, result)
           THEN /\ rv_stopped_early' = TRUE
                /\ rv_stop_reason' = Some(StopReason(tier))
                /\ rv_tiers_remaining' = remaining
                /\ RVComplete(results, TRUE, Some(StopReason(tier)))
           ELSE /\ RVLoop(rv_iter, results, remaining)
                /\ UNCHANGED <<rv_stopped_early, rv_stop_reason>>
  /\ UNCHANGED <<notRV, workflow_type, rule_exists, rv_input, rv_skip_tiers,
                 rv_error, rv_signals, rv_timely_skips, rv_returned>>

\* a tier activity returned: record the result, stop early or go on
RVAfterTier ==
  /\ rv_pc = "tier"
  /\ rv_call.state = "ok"
  /\ LET result == rv_call.result[1]
         tier == rv_current_tier[1]
         results == Append(rv_tier_results, result)
         remaining == SelectSeq(rv_tiers_remaining, LAMBDA t : t # tier)
     IN /\ rv_tier_results' = results
        /\ rv_tiers_completed' = Append(rv_tiers_completed, tier)
        /\ IF StopsEarly(rv_input.fail_fast, result)
           THEN /\ rv_stopped_early' = TRUE
                /\ rv_stop_reason' = Some(StopReason(tier))
                /\ rv_tiers_remaining' = remaining
                /\ RVComplete(results, TRUE, Some(StopReason(tier)))
           ELSE /\ RVLoop(rv_iter, results, remaining)
                /\ UNCHANGED <<rv_stopped_early, rv_stop_reason>>
  /\ UNCHANGED <<notRV, workflow_type, rule_exists, rv_input, rv_skip_tiers,
                 rv_error, rv_signals, rv_timely_skips, rv_returned>>

\* a faulty except branch that returns an output without the partial results
RVFailedOutputDiscarding(results, error) ==
  [status |-> "failed",
   tier_results |-> <<>>,
   highest_tier_passed |-> Null,
   overall_score |-> [num |-> 0, den |-> 1],
   overall_passed |-> FALSE,
   stopped_early |-> TRUE,
   stop_reason |-> error,
   error |-> error]

\* the RuleVerificationOutput the except branch returns
RVFailedOutput(results, error) ==
  [status |-> "failed",
   tier_results |-> results,
   highest_tier_passed |-> Null,
   overall_score |-> [num |-> 0, den |-> 1],
   overall_passed |-> FALSE,
   stopped_early |-> TRUE,
   stop_reason |-> error,
   error |-> error]

\* "except Exception as e": an awaited activity failed for good
RVFailed ==
  /\ rv_pc \in {"load", "tier"}
  /\ rv_call.state = "failed"
  /\ rv_status' = "failed"
  /\ rv_error' = rv_call.msg
  /\ rv_pc' = "done"
  /\ rv_output' = Some(RVFailedOutput(rv_tier_results, rv_call.msg))
  /\ UNCHANGED <<notRV, workflow_type, rule_exists, rv_input, rv_current_tier,
                 rv_tier_results, rv_tiers_completed, rv_tiers_remaining,
                 rv_skip_tiers, rv_stopped_early, rv_stop_reason, rv_iter,
                 rv_call, rv_call_name, rv_dispatched, rv_signals,
                 rv_timely_skips, rv_returned>>

RVCallUnchanged ==
  UNCHANGED <<notRV, workflow_type, rule_exists, rv_input, rv_pc, rv_status,
              rv_current_tier, rv_tier_results, rv_tiers_completed,
              rv_tiers_remaining, rv_skip_tiers, rv_stopped_early,
              rv_stop_reason, rv_error, rv_iter, rv_call_name, rv_output,
              rv_dispatched, rv_signals, rv_timely_skips>>

\* load_rule_activity: the rule is in the store and is returned
LoadRuleReturns ==
  /\ rv_pc = "load"
  /\ rv_call.state = "inflight"
  /\ rule_exists
  /\ rv_call' = AttemptSucceeds(rv_call, "rule")
  /\ RVCallUnchanged
  /\ UNCHANGED rv_returned

\* load_rule_activity: raise ValueError("Rule not found: ...")
LoadRuleNotFound ==
  /\ rv_pc = "load"
  /\ rv_call.state = "inflight"
  /\ ~rule_exists
  /\ rv_call' = AttemptFails(rv_call, "Rule not found")
  /\ RVCallUnchanged
  /\ UNCHANGED rv_returned

\* verify_tier_N_activity returns its TierResult
TierReturns(outcome) ==
  /\ rv_pc = "tier"
  /\ rv_call.state = "inflight"
  /\ LET result == [tier |-> rv_current_tier[1],
                    passed |-> outcome.passed,
                    score |-> outcome.score]
     IN /\ rv_call' = AttemptSucceeds(rv_call, result)
        /\ rv_returned' = Append(rv_returned, result)
  /\ RVCallUnchanged

\* an attempt of the awaited activity times out or raises
RVAttemptFails(reason) ==
  /\ rv_pc \in {"load", "tier"}
  /\ rv_call.state = "inflight"
  /\ rv_call' = AttemptFails(rv_call, reason)
  /\ RVCallUnchanged
  /\ UNCHANGED rv_returned

RVNext ==
  \/ RVStart
  \/ \E t \in VerificationTier : RVSkipTier(t)
  \/ LoadRuleReturns
  \/ LoadRuleNotFound
  \/ \E o \in TierOutcomes : TierReturns(o)
  \/ \E r \in TransientFailures : RVAttemptFails(r)
  \/ RVAfterLoad
  \/ RVAfterTier
  \/ RVFailed

(***************************************************************************)
(* ComplianceCheckWorkflow                                                 *)
(***************************************************************************)
\* how many jurisdictions resolve_jurisdictions_activity may return
MaxJurisdictions == 2

JurisdictionStatus ==
  {"compliant", "blocked", "requires_action", "no_applicable_rules"}

resolve_jurisdictions_activity == <<"resolve_jurisdictions_activity">>
get_equivalences_activity == <<"get_equivalences_activity">>
evaluate_jurisdiction_activity(j) == <<"evaluate_jurisdiction_activity", j>>
detect_conflicts_activity == <<"detect_conflicts_activity">>
synthesize_pathway_activity == <<"synthesize_pathway_activity">>
aggregate_obligations_activity == <<"aggregate_obligations_activity">>

EvaluationCalls(n) == {evaluate_jurisdiction_activity(j) : j \in 1..n}

CCLaterCalls ==
  {detect_conflicts_activity, synthesize_pathway_activity,
   aggregate_obligations_activity}

CCCallNames ==
  {resolve_jurisdictions_activity, get_equivalences_activity}
    \cup EvaluationCalls(MaxJurisdictions) \cup CCLaterCalls

CCInputs ==
  {[include_equivalences |-> e, detect_conflicts |-> d] :
     e \in BOOLEAN, d \in BOOLEAN}

DefaultCCInput == [include_equivalences |-> TRUE, detect_conflicts |-> TRUE]

\* ComplianceCheckWorkflow.__init__
CCConstructed ==
  /\ cc_pc = "init"
  /\ cc_status = "pending"
  /\ cc_current_phase = "initializing"
  /\ cc_total_jurisdictions = 0
  /\ cc_completed_jurisdictions = 0
  /\ cc_jurisdiction_results = <<>>
  /\ cc_equivalences = <<>>
  /\ cc_conflicts = <<>>
  /\ cc_pathway = Null
  /\ cc_obligations = <<>>
  /\ cc_error = Null
  /\ cc_calls = [c \in CCCallNames |-> NoCall]
  /\ cc_output = Null
  /\ cc_dispatched = <<>>

CCInit == cc_input \in CCInputs /\ CCConstructed

CCIdle == cc_input = DefaultCCInput /\ CCConstructed

CCAllDispatched == UNION Range(cc_dispatched)

CCInFlight == {c \in CCCallNames : cc_calls[c].state = "inflight"}

\* workflow.execute_activity is a coroutine function: the activity is
\* scheduled when the coroutine is awaited or gathered, not when it is made
CCDispatch(names) ==
  /\ cc_calls' = [c \in CCCallNames |-> IF c \in names THEN NewCall ELSE NoCall]
  /\ cc_dispatched' = Append(cc_dispatched, names)

\* a faulty aggregation that reports no_applicable_rules when no
\* jurisdiction had an applicable rule
ComputeOverallStatusNoRules(results) ==
  IF results = <<>> THEN "no_applicable_rules"
  ELSE IF "blocked" \in Range(results) THEN "blocked"
  ELSE IF "requires_action" \in Range(results) THEN "requires_action"
  ELSE IF \A i \in 1..Len(results) : results[i] = "compliant" THEN "compliant"
  ELSE IF \A i \in 1..Len(results) : results[i] = "no_applicable_rules"
  THEN "no_applicable_rules"
  ELSE "requires_action"

\* a faulty aggregation that tests requires_action before blocked
ComputeOverallStatusSwapped(results) ==
  IF results = <<>> THEN "no_applicable_rules"
  ELSE IF "requires_action" \in Range(results) THEN "requires_action"
  ELSE IF "blocked" \in Range(results) THEN "blocked"
  ELSE IF \A i \in 1..Len(results) : results[i] = "compliant" THEN "compliant"
  ELSE "requires_action"

\* _compute_overall_status
ComputeOverallStatus(results) ==
  IF results = <<>> THEN "no_applicable_rules"
  ELSE IF "blocked" \in Range(results) THEN "blocked"
  ELSE IF "requires_action" \in Range(results) THEN "requires_action"
  ELSE IF \A i \in 1..Len(results) : results[i] = "compliant" THEN "compliant"
  ELSE "requires_action"

CCOutput(status, overall, obligations, error) ==
  [status |-> status,
   jurisdiction_results |-> cc_jurisdiction_results,
   equivalences |-> cc_equivalences,
   conflicts |-> cc_conflicts,
   pathway |-> cc_pathway,
   aggregated_obligations |-> obligations,
   overall_status |-> overall,
   error |-> error]

\* run, up to the await on resolve_jurisdictions_activity
CCStart ==
  /\ workflow_type = "ComplianceCheckWorkflow"
  /\ cc_pc = "init"
  /\ cc_status' = "running"
  /\ cc_current_phase' = "resolving"
  /\ CCDispatch({resolve_jurisdictions_activity})
  /\ cc_pc' = "resolving"
  /\ UNCHANGED <<notCC, workflow_type, cc_input, cc_total_jurisdictions, cc_completed_jurisdictions,
                 cc_jurisdiction_results, cc_equivalences, cc_conflicts,
                 cc_pathway, cc_obligations, cc_error, cc_output>>

\* Phase 5, up to the await on synthesize_pathway_activity
CCSynthesize ==
  /\ cc_current_phase' = "synthesizing"
  /\ CCDispatch({synthesize_pathway_activity})
  /\ cc_pc' = "synthesizing"

\* Phase 4, up to the await on detect_conflicts_activity, or Phase 5
CCDetectConflicts ==
  IF cc_input.detect_conflicts
  THEN /\ cc_current_phase' = "detecting_conflicts"
       /\ CCDispatch({detect_conflicts_activity})
       /\ cc_pc' = "detecting_conflicts"
  ELSE CCSynthesize

\* "if equivalence_task: self._equivalences = await equivalence_task":
\* the await is what starts the equivalence coroutine
CCAwaitEquivalences ==
  IF cc_input.include_equivalences
  THEN /\ cc_current_phase' = "evaluating"
       /\ CCDispatch({get_equivalences_activity})
       /\ cc_pc' = "equivalences"
  ELSE CCDetectConflicts

\* the jurisdictions are resolved: fan out the evaluations and await the
\* gather; asyncio.gather() of no awaitable is done at once
CCAfterResolve ==
  /\ cc_pc = "resolving"
  /\ cc_calls[resolve_jurisdictions_activity].state = "ok"
  /\ LET n == cc_calls[resolve_jurisdictions_activity].result[1]
     IN /\ cc_total_jurisdictions' = n
        /\ IF n > 0
           THEN /\ cc_current_phase' = "evaluating"
                /\ CCDispatch(EvaluationCalls(n))
                /\ cc_pc' = "gather"
           ELSE CCAwaitEquivalences
  /\ UNCHANGED <<notCC, workflow_type, cc_input, cc_status, cc_completed_jurisdictions,
                 cc_jurisdiction_results, cc_equivalences, cc_conflicts,
                 cc_pathway, cc_obligations, cc_error, cc_output>>

\* every evaluation has returned: the gather yields the results in order
CCAfterGather ==
  /\ cc_pc = "gather"
  /\ \A c \in EvaluationCalls(cc_total_jurisdictions) : cc_calls[c].state = "ok"
  /\ cc_jurisdiction_results' =
       [j \in 1..cc_total_jurisdictions |->
          cc_calls[evaluate_jurisdiction_activity(j)].result[1]]
  /\ cc_completed_jurisdictions' = cc_total_jurisdictions
  /\ CCAwaitEquivalences
  /\ UNCHANGED <<notCC, workflow_type, cc_input, cc_status, cc_total_jurisdictions, cc_equivalences,
                 cc_conflicts, cc_pathway, cc_obligations, cc_error,
                 cc_output>>

CCAfterEquivalences ==
  /\ cc_pc = "equivalences"
  /\ cc_calls[get_equivalences_activity].state = "ok"
  /\ cc_equivalences' = cc_calls[get_equivalences_activity].result
  /\ CCDetectConflicts
  /\ UNCHANGED <<notCC, workflow_type, cc_input, cc_status, cc_total_jurisdictions,
                 cc_completed_jurisdictions, cc_jurisdiction_results,
                 cc_conflicts, cc_pathway, cc_obligations, cc_error,
                 cc_output>>

CCAfterConflicts ==
  /\ cc_pc = "detecting_conflicts"
  /\ cc_calls[detect_conflicts_activity].state = "ok"
  /\ cc_conflicts' = cc_calls[detect_conflicts_activity].result
  /\ CCSynthesize
  /\ UNCHANGED <<notCC, workflow_type, cc_input, cc_status, cc_total_jurisdictions,
                 cc_completed_jurisdictions, cc_jurisdiction_results,
                 cc_equivalences, cc_pathway, cc_obligations, cc_error,
                 cc_output>>

\* Phase 6 is awaited without a change of _current_phase
CCAfterPathway ==
  /\ cc_pc = "synthesizing"
  /\ cc_calls[synthesize_pathway_activity].state = "ok"
  /\ cc_pathway' = cc_calls[synthesize_pathway_activity].result
  /\ CCDispatch({aggregate_obligations_activity})
  /\ cc_pc' = "aggregating"
  /\ UNCHANGED <<notCC, workflow_type, cc_input, cc_status, cc_current_phase,
                 cc_total_jurisdictions, cc_completed_jurisdictions,
                 cc_jurisdiction_results, cc_equivalences, cc_conflicts,
                 cc_obligations, cc_error, cc_output>>

\* the successful return of run
CCAfterObligations ==
  /\ cc_pc = "aggregating"
  /\ cc_calls[aggregate_obligations_activity].state = "ok"
  /\ cc_obligations' = cc_calls[aggregate_obligations_activity].result
  /\ cc_status' = "completed"
  /\ cc_current_phase' = "completed"
  /\ cc_pc' = "done"
  /\ cc_calls' = [c \in CCCallNames |-> NoCall]
  /\ cc_output' =
       Some(CCOutput("completed",
                     ComputeOverallStatus(cc_jurisdiction_results),
                     cc_obligations', Null))
  /\ UNCHANGED <<notCC, workflow_type, cc_input, cc_total_jurisdictions,
                 cc_completed_jurisdictions, cc_jurisdiction_results,
                 cc_equivalences, cc_conflicts, cc_pathway, cc_error,
                 cc_dispatched>>

\* the calls the body is waiting for at its suspension point
CCAwaited ==
  CASE cc_pc = "resolving" -> {resolve_jurisdictions_activity}
    [] cc_pc = "gather" -> EvaluationCalls(cc_total_jurisdictions)
    [] cc_pc = "equivalences" -> {get_equivalences_activity}
    [] cc_pc = "detecting_conflicts" -> {detect_conflicts_activity}
    [] cc_pc = "synthesizing" -> {synthesize_pathway_activity}
    [] cc_pc = "aggregating" -> {aggregate_obligations_activity}
    [] OTHER -> {}

\* a faulty handler that swallows the failure and goes on to the synthesis
CCFailedSwallowed ==
  /\ \E c \in CCAwaited : cc_calls[c].state = "failed"
  /\ CCSynthesize
  /\ UNCHANGED <<notCC, workflow_type, cc_input, cc_status,
                 cc_total_jurisdictions, cc_completed_jurisdictions,
                 cc_jurisdiction_results, cc_equivalences, cc_conflicts,
                 cc_pathway, cc_obligations, cc_error, cc_output>>

\* "except Exception as e": an awaited activity (for a gather: any member)
\* failed for good
CCFailed ==
  /\ \E c \in CCAwaited :
       /\ cc_calls[c].state = "failed"
       /\ cc_error' = cc_calls[c].msg
       /\ cc_output' =
            Some(CCOutput("failed", "blocked", cc_obligations, cc_calls[c].msg))
  /\ cc_status' = "failed"
  /\ cc_pc' = "done"
  /\ UNCHANGED <<notCC, workflow_type, cc_input, cc_current_phase, cc_total_jurisdictions,
                 cc_completed_jurisdictions, cc_jurisdiction_results,
                 cc_equivalences, cc_conflicts, cc_pathway, cc_obligations,
                 cc_calls, cc_dispatched>>

CCEnvUnchanged ==
  UNCHANGED <<notCC, workflow_type, cc_input, cc_pc, cc_status, cc_current_phase,
              cc_total_jurisdictions, cc_completed_jurisdictions,
              cc_jurisdiction_results, cc_equivalences, cc_conflicts,
              cc_pathway, cc_obligations, cc_error, cc_output, cc_dispatched>>

\* what each activity can return
CCResults(c) ==
  IF c = resolve_jurisdictions_activity THEN 0..MaxJurisdictions
  ELSE IF Len(c) = 2 THEN JurisdictionStatus
  ELSE {c[1]}

\* a faulty completion that counts each evaluation as it returns, ahead of
\* the join
CCActivityReturnsCounting(c, r) ==
  /\ cc_pc # "done"
  /\ cc_calls[c].state = "inflight"
  /\ cc_calls' = [cc_calls EXCEPT ![c] = AttemptSucceeds(@, r)]
  /\ cc_completed_jurisdictions' =
       IF Len(c) = 2 THEN cc_completed_jurisdictions + 1
       ELSE cc_completed_jurisdictions
  /\ UNCHANGED <<notCC, workflow_type, cc_input, cc_pc, cc_status,
                 cc_current_phase, cc_total_jurisdictions,
                 cc_jurisdiction_results, cc_equivalences, cc_conflicts,
                 cc_pathway, cc_obligations, cc_error, cc_output, cc_dispatched>>

\* an activity returns its result to the workflow
CCActivityReturns(c, r) ==
  /\ cc_pc # "done"
  /\ cc_calls[c].state = "inflight"
  /\ cc_calls' = [cc_calls EXCEPT ![c] = AttemptSucceeds(@, r)]
  /\ CCEnvUnchanged

CCAttemptFails(c, reason) ==
  /\ cc_pc # "done"
  /\ cc_calls[c].state = "inflight"
  /\ cc_calls' = [cc_calls EXCEPT ![c] = AttemptFails(@, reason)]
  /\ CCEnvUnchanged

CCNext ==
  \/ CCStart
  \/ \E c \in CCCallNames : \E r \in CCResults(c) : CCActivityReturns(c, r)
  \/ \E c \in CCCallNames : \E r \in TransientFailures : CCAttemptFails(c, r)
  \/ CCAfterResolve
  \/ CCAfterGather
  \/ CCAfterEquivalences
  \/ CCAfterConflicts
  \/ CCAfterPathway
  \/ CCAfterObligations
  \/ CCFailed

(***************************************************************************)
(* CounterfactualAnalysisWorkflow                                          *)
(***************************************************************************)
\* how many scenarios input.scenarios may list
MaxScenarios == 2

evaluate_baseline_activity == <<"evaluate_baseline_activity">>
analyze_counterfactual_activity(i) == <<"analyze_counterfactual_activity", i>>
compute_delta_activity(i) == <<"compute_delta_activity", i>>

ScenarioCalls(n) == {analyze_counterfactual_activity(i) : i \in 1..n}
DeltaCalls(n) == {compute_delta_activity(i) : i \in 1..n}

CFCallNames ==
  {evaluate_baseline_activity} \cup ScenarioCalls(MaxScenarios)
    \cup DeltaCalls(MaxScenarios)

\* what DecisionEngine.evaluate can give as result.decision
EvaluatorDecisions == {Null, Some("permitted"), Some("prohibited")}

\* "decision=result.decision or 'unknown'"
ReportedDecision(d) == IF d = Null THEN "unknown" ELSE d[1]

\* "differs = result.decision != baseline_decision", the left side being
\* the evaluator's decision (None or a string), the right side a string
Differs(d, baseline_decision) == d = Null \/ d[1] # baseline_decision

\* key_differences: the change of decision when differs, then one entry
\* for every key of modified_facts whose value is not the baseline's
KeyDifferences(d, baseline_decision, modified) ==
  (IF Differs(d, baseline_decision)
   THEN <<<<"Decision changed", baseline_decision, d>>>> ELSE <<>>)
    \o (IF modified THEN <<<<"fact changed">>>> ELSE <<>>)

\* evaluate_baseline_activity's ScenarioResult
BaselineResult(d) ==
  [scenario_id |-> 0, decision |-> ReportedDecision(d),
   differs_from_baseline |-> FALSE, key_differences |-> <<>>]

\* analyze_counterfactual_activity's ScenarioResult
CounterfactualResult(i, d, baseline_decision, modified) ==
  [scenario_id |-> i, decision |-> ReportedDecision(d),
   differs_from_baseline |-> Differs(d, baseline_decision),
   key_differences |-> KeyDifferences(d, baseline_decision, modified)]

\* compute_delta_activity
ComputeDelta(baseline, sr) ==
  [scenario_id |-> sr.scenario_id,
   decision_changed |-> baseline.decision # sr.decision,
   original_decision |-> baseline.decision,
   new_decision |-> sr.decision]

\* modified_facts[i] tells whether scenario i changes a baseline fact
\* (FALSE: its modified_facts is empty)
CFInputs ==
  UNION {{[n_scenarios |-> n, include_delta_analysis |-> d,
           modified_facts |-> m] :
            d \in BOOLEAN, m \in [1..n -> BOOLEAN]} : n \in 0..MaxScenarios}

DefaultCFInput ==
  [n_scenarios |-> 0, include_delta_analysis |-> TRUE, modified_facts |-> <<>>]

\* CounterfactualAnalysisWorkflow.__init__
CFConstructed ==
  /\ cf_pc = "init"
  /\ cf_status = "pending"
  /\ cf_total_scenarios = 0
  /\ cf_completed_scenarios = 0
  /\ cf_current_scenario = Null
  /\ cf_baseline_result = Null
  /\ cf_scenario_results = <<>>
  /\ cf_delta_analyses = <<>>
  /\ cf_error = Null
  /\ cf_calls = [c \in CFCallNames |-> NoCall]
  /\ cf_output = Null
  /\ cf_dispatched = <<>>
  /\ cf_evaluated = Null

CFInit == cf_input \in CFInputs /\ CFConstructed

CFIdle == cf_input = DefaultCFInput /\ CFConstructed

CFAllDispatched == UNION Range(cf_dispatched)

CFInFlight == {c \in CFCallNames : cf_calls[c].state = "inflight"}

CFDispatch(names) ==
  /\ cf_calls' = [c \in CFCallNames |-> IF c \in names THEN NewCall ELSE NoCall]
  /\ cf_dispatched' = Append(cf_dispatched, names)

CFOutput(status, baseline, scenarios, deltas, error) ==
  [status |-> status, baseline_result |-> baseline,
   scenario_results |-> scenarios, delta_analyses |-> deltas,
   error |-> error]

\* run, up to the await on evaluate_baseline_activity
CFStart ==
  /\ workflow_type = "CounterfactualAnalysisWorkflow"
  /\ cf_pc = "init"
  /\ cf_status' = "running"
  /\ cf_total_scenarios' = cf_input.n_scenarios
  /\ cf_current_scenario' = Some("baseline")
  /\ CFDispatch({evaluate_baseline_activity})
  /\ cf_pc' = "baseline"
  /\ UNCHANGED <<notCF, workflow_type, cf_input, cf_completed_scenarios,
                 cf_baseline_result, cf_scenario_results, cf_delta_analyses,
                 cf_error, cf_output, cf_evaluated>>

\* "Generate summary" and the successful return of run
CFComplete(baseline, scenarios, deltas) ==
  /\ cf_status' = "completed"
  /\ cf_current_scenario' = Null
  /\ cf_pc' = "done"
  /\ cf_calls' = [c \in CFCallNames |-> NoCall]
  /\ cf_output' =
       Some(CFOutput("completed", baseline, scenarios, deltas, Null))
  /\ UNCHANGED cf_dispatched

\* Phase 3, up to the await on the gather of the deltas, or to the end
CFDeltas(baseline, scenarios) ==
  IF cf_input.include_delta_analysis /\ Len(scenarios) > 0
  THEN /\ cf_current_scenario' = Some("delta_analysis")
       /\ CFDispatch(DeltaCalls(Len(scenarios)))
       /\ cf_pc' = "deltas"
       /\ UNCHANGED <<cf_status, cf_delta_analyses, cf_output>>
  ELSE /\ cf_delta_analyses' = <<>>
       /\ CFComplete(baseline, scenarios, <<>>)

\* the baseline is evaluated: fan out the scenarios and await the gather
CFAfterBaseline ==
  /\ cf_pc = "baseline"
  /\ cf_calls[evaluate_baseline_activity].state = "ok"
  /\ cf_baseline_result' = cf_calls[evaluate_baseline_activity].result
  /\ IF cf_input.n_scenarios > 0
     THEN /\ cf_current_scenario' = Some("counterfactuals")
          /\ CFDispatch(ScenarioCalls(cf_input.n_scenarios))
          /\ cf_pc' = "scenarios"
          /\ UNCHANGED <<cf_status, cf_scenario_results,
                         cf_completed_scenarios, cf_delta_analyses, cf_output>>
     ELSE /\ cf_scenario_results' = <<>>
          /\ cf_completed_scenarios' = 0
          /\ CFDeltas(cf_calls[evaluate_baseline_activity].result, <<>>)
  /\ UNCHANGED <<notCF, workflow_type, cf_input, cf_total_scenarios, cf_error,
                 cf_evaluated>>

\* every scenario has returned
CFAfterScenarios ==
  /\ cf_pc = "scenarios"
  /\ \A c \in ScenarioCalls(cf_input.n_scenarios) : cf_calls[c].state = "ok"
  /\ LET scenarios ==
           [i \in 1..cf_input.n_scenarios |->
              cf_calls[analyze_counterfactual_activity(i)].result[1]]
     IN /\ cf_scenario_results' = scenarios
        /\ cf_completed_scenarios' = Len(scenarios)
        /\ CFDeltas(cf_baseline_result, scenarios)
  /\ UNCHANGED <<notCF, workflow_type, cf_input, cf_total_scenarios,
                 cf_baseline_result, cf_error, cf_evaluated>>

\* every delta has returned
CFAfterDeltas ==
  /\ cf_pc = "deltas"
  /\ \A c \in DeltaCalls(cf_input.n_scenarios) : cf_calls[c].state = "ok"
  /\ LET deltas ==
           [i \in 1..cf_input.n_scenarios |->
              cf_calls[compute_delta_activity(i)].result[1]]
     IN /\ cf_delta_analyses' = deltas
        /\ CFComplete(cf_baseline_result, cf_scenario_results, deltas)
  /\ UNCHANGED <<notCF, workflow_type, cf_input, cf_total_scenarios,
                 cf_completed_scenarios, cf_baseline_result,
                 cf_scenario_results, cf_error, cf_evaluated>>

CFAwaited ==
  CASE cf_pc = "baseline" -> {evaluate_baseline_activity}
    [] cf_pc = "scenarios" -> ScenarioCalls(cf_input.n_scenarios)
    [] cf_pc = "deltas" -> DeltaCalls(cf_input.n_scenarios)
    [] OTHER -> {}

\* the placeholder baseline of the failed output
FailedBaseline ==
  [scenario_id |-> 0, decision |-> "error", differs_from_baseline |-> FALSE]

\* a faulty handler that swallows the failure and goes on with the deltas
CFFailedSwallowed ==
  /\ \E c \in CFAwaited : cf_calls[c].state = "failed"
  /\ CFDispatch(DeltaCalls(cf_input.n_scenarios))
  /\ cf_pc' = "deltas"
  /\ UNCHANGED <<notCF, workflow_type, cf_input, cf_status, cf_total_scenarios,
                 cf_completed_scenarios, cf_current_scenario,
                 cf_baseline_result, cf_scenario_results, cf_delta_analyses,
                 cf_error, cf_output, cf_evaluated>>

\* "except Exception as e"
CFFailed ==
  /\ \E c \in CFAwaited :
       /\ cf_calls[c].state = "failed"
       /\ cf_error' = cf_calls[c].msg
       /\ cf_output' =
            Some(CFOutput("failed",
                          IF cf_baseline_result # Null THEN cf_baseline_result
                          ELSE Some(FailedBaseline),
                          cf_scenario_results, cf_delta_analyses,
                          cf_calls[c].msg))
  /\ cf_status' = "failed"
  /\ cf_pc' = "done"
  /\ UNCHANGED <<notCF, workflow_type, cf_input, cf_total_scenarios,
                 cf_completed_scenarios, cf_current_scenario,
                 cf_baseline_result, cf_scenario_results, cf_delta_analyses,
                 cf_calls, cf_dispatched, cf_evaluated>>

CFCallsUnchanged ==
  UNCHANGED <<notCF, workflow_type, cf_input, cf_pc, cf_status,
              cf_total_scenarios, cf_completed_scenarios, cf_current_scenario,
              cf_baseline_result, cf_scenario_results, cf_delta_analyses,
              cf_error, cf_output, cf_dispatched>>

CFEnvUnchanged == CFCallsUnchanged /\ UNCHANGED cf_evaluated

\* evaluate_baseline_activity: the engine decides d on the baseline facts
BaselineReturns(d) ==
  /\ cf_pc = "baseline"
  /\ cf_calls[evaluate_baseline_activity].state = "inflight"
  /\ cf_calls' = [cf_calls EXCEPT ![evaluate_baseline_activity] =
                    AttemptSucceeds(@, BaselineResult(d))]
  /\ cf_evaluated' = Some(d)
  /\ CFCallsUnchanged

\* analyze_counterfactual_activity: the engine decides d on the merged
\* facts; it is deterministic, so facts equal to the baseline's (an empty
\* modified_facts) get the baseline's decision
CounterfactualReturns(i, d) ==
  /\ cf_pc = "scenarios"
  /\ cf_calls[analyze_counterfactual_activity(i)].state = "inflight"
  /\ cf_input.modified_facts[i] \/ Some(d) = cf_evaluated
  /\ cf_calls' =
       [cf_calls EXCEPT ![analyze_counterfactual_activity(i)] =
          AttemptSucceeds(@, CounterfactualResult(
                               i, d, cf_baseline_result[1].decision,
                               cf_input.modified_facts[i]))]
  /\ CFEnvUnchanged

DeltaReturns(i) ==
  /\ cf_pc = "deltas"
  /\ cf_calls[compute_delta_activity(i)].state = "inflight"
  /\ cf_calls' =
       [cf_calls EXCEPT ![compute_delta_activity(i)] =
          AttemptSucceeds(@, ComputeDelta(cf_baseline_result[1],
                                          cf_scenario_results[i]))]
  /\ CFEnvUnchanged

CFAttemptFails(c, reason) ==
  /\ cf_pc # "done"
  /\ cf_calls[c].state = "inflight"
  /\ cf_calls' = [cf_calls EXCEPT ![c] = AttemptFails(@, reason)]
  /\ CFEnvUnchanged

CFNext ==
  \/ CFStart
  \/ \E d \in EvaluatorDecisions : BaselineReturns(d)
  \/ \E i \in 1..MaxScenarios : \E d \in EvaluatorDecisions :
       CounterfactualReturns(i, d)
  \/ \E i \in 1..MaxScenarios : DeltaReturns(i)
  \/ \E c \in CFCallNames : \E r \in TransientFailures : CFAttemptFails(c, r)
  \/ CFAfterBaseline
  \/ CFAfterScenarios
  \/ CFAfterDeltas
  \/ CFFailed

(***************************************************************************)
(* DriftDetectionWorkflow                                                  *)
(***************************************************************************)
\* how many rule ids input.rule_ids may list
MaxRules == 12
\* how many rules the rule store holds
CorpusSize == 25

batch_size == 10

RuleIds == 1..(IF MaxRules > CorpusSize THEN MaxRules ELSE CorpusSize)

\* the rule store: the rules whose Tier-0 evidence shows drift, and the
\* rules whose drift check can raise or time out
DriftingRules == {r \in RuleIds : r % 11 = 3}
FlakyRules == {r \in RuleIds : r % 9 = 0}

get_all_rule_ids_activity == <<"get_all_rule_ids_activity">>
notify_drift_detected_activity == <<"notify_drift_detected_activity">>

\* get_all_rule_ids_activity's result
AllRuleIds == [i \in 1..CorpusSize |-> i]

\* an explicit input list of n rule ids
InputRuleIds(n) == [i \in 1..n |-> n + 1 - i]

\* check_rule_drift_activity's RuleDriftResult
CheckRuleDrift(r) == [rule_id |-> r, has_drift |-> r \in DriftingRules]

RECURSIVE CountDrift(_)
CountDrift(rs) ==
  IF rs = <<>> THEN 0
  ELSE (IF rs[1].has_drift THEN 1 ELSE 0) + CountDrift(Tail(rs))

\* notify_drift_detected_activity: the number of notifications sent
NotifyDriftDetected(payload) ==
  CountDrift(SelectSeq(payload, LAMBDA r : r.has_drift))

DDInputs ==
  {[rule_ids |-> ids, notify_on_drift |-> b] :
     ids \in {Null} \cup {Some(InputRuleIds(n)) : n \in 0..MaxRules},
     b \in BOOLEAN}

DefaultDDInput == [rule_ids |-> Null, notify_on_drift |-> TRUE]

\* DriftDetectionWorkflow.__init__
DDConstructed ==
  /\ dd_pc = "init"
  /\ dd_status = "pending"
  /\ dd_total_rules = 0
  /\ dd_checked_rules = 0
  /\ dd_drift_detected = 0
  /\ dd_drift_results = <<>>
  /\ dd_notifications_sent = 0
  /\ dd_error = Null
  /\ dd_rule_ids = <<>>
  /\ dd_i = 0
  /\ dd_checks = [r \in RuleIds |-> NoCall]
  /\ dd_call = NoCall
  /\ dd_output = Null
  /\ dd_dispatched = <<>>

DDInit == dd_input \in DDInputs /\ DDConstructed

DDIdle == dd_input = DefaultDDInput /\ DDConstructed

DDInFlight == {r \in RuleIds : dd_checks[r].state = "inflight"}

DDOutput(status, checked, drift, results, sent, error) ==
  [status |-> status, rules_checked |-> checked, rules_with_drift |-> drift,
   drift_results |-> results, notifications_sent |-> sent, error |-> error]

\* a faulty test, "if input.rule_ids is not None:", that takes the empty list
\* as a list of rules to check
HasRuleIdsNotNone(ids) == ids # Null

\* "if input.rule_ids:" is false for None and for the empty list
HasRuleIds(ids) == ids # Null /\ ids[1] # <<>>

\* a faulty slice whose end index is taken as inclusive
BatchInclusiveEnd(ids, i) ==
  SubSeq(ids, i + 1, IF i + batch_size + 1 < Len(ids) THEN i + batch_size + 1
                     ELSE Len(ids))

\* "batch = rule_ids[i : i + batch_size]"
Batch(ids, i) ==
  SubSeq(ids, i + 1, IF i + batch_size < Len(ids) THEN i + batch_size
                     ELSE Len(ids))

\* the successful return of run
DDComplete(results, checked, drift, sent) ==
  /\ dd_status' = "completed"
  /\ dd_pc' = "done"
  /\ dd_call' = NoCall
  /\ dd_output' =
       Some(DDOutput("completed", checked, drift, results, sent, Null))

\* a faulty Phase 3 that notifies whether or not a rule has drift
DDNotifyWithoutDrift(results, checked, drift) ==
  IF dd_input.notify_on_drift
  THEN /\ dd_call' = NewCall
       /\ dd_pc' = "notify"
       /\ dd_status' = "running"
       /\ UNCHANGED dd_output
  ELSE DDComplete(results, checked, drift, dd_notifications_sent)

\* Phase 3, up to the await on notify_drift_detected_activity, or to the end
DDNotify(results, checked, drift) ==
  IF dd_input.notify_on_drift /\ drift > 0
  THEN /\ dd_call' = NewCall
       /\ dd_pc' = "notify"
       /\ dd_status' = "running"
       /\ UNCHANGED dd_output
  ELSE DDComplete(results, checked, drift, dd_notifications_sent)

\* the batch loop from its header to the await on the gather of a batch,
\* or past its end
DDLoop(ids, i, results, checked, drift) ==
  IF i < Len(ids)
  THEN /\ dd_checks' =
            [r \in RuleIds |->
               IF r \in Range(Batch(ids, i)) THEN NewCall ELSE NoCall]
       /\ dd_dispatched' = Append(dd_dispatched, Batch(ids, i))
       /\ dd_i' = i
       /\ dd_pc' = "batch"
       /\ dd_call' = NoCall
       /\ dd_status' = "running"
       /\ UNCHANGED dd_output
  ELSE /\ dd_checks' = [r \in RuleIds |-> NoCall]
       /\ dd_i' = i
       /\ DDNotify(results, checked, drift)
       /\ UNCHANGED dd_dispatched

\* run, up to its first await
DDStart ==
  /\ workflow_type = "DriftDetectionWorkflow"
  /\ dd_pc = "init"
  /\ IF HasRuleIds(dd_input.rule_ids)
     THEN /\ dd_rule_ids' = dd_input.rule_ids[1]
          /\ dd_total_rules' = Len(dd_input.rule_ids[1])
          /\ DDLoop(dd_input.rule_ids[1], 0, dd_drift_results,
                    dd_checked_rules, dd_drift_detected)
     ELSE /\ dd_status' = "running"
          /\ dd_call' = NewCall
          /\ dd_pc' = "get_ids"
          /\ UNCHANGED <<dd_rule_ids, dd_total_rules, dd_checks, dd_i,
                         dd_output, dd_dispatched>>
  /\ UNCHANGED <<notDD, workflow_type, dd_input, dd_checked_rules,
                 dd_drift_detected, dd_drift_results, dd_notifications_sent,
                 dd_error>>

\* get_all_rule_ids_activity returned: enter the batch loop
DDAfterGetIds ==
  /\ dd_pc = "get_ids"
  /\ dd_call.state = "ok"
  /\ dd_rule_ids' = dd_call.result[1]
  /\ dd_total_rules' = Len(dd_call.result[1])
  /\ DDLoop(dd_call.result[1], 0, dd_drift_results, dd_checked_rules,
            dd_drift_detected)
  /\ UNCHANGED <<notDD, workflow_type, dd_input, dd_checked_rules,
                 dd_drift_detected, dd_drift_results, dd_notifications_sent,
                 dd_error>>

\* every check of the batch has returned: record the results in order and
\* go on with the next batch
DDAfterBatch ==
  /\ dd_pc = "batch"
  /\ \A r \in Range(Batch(dd_rule_ids, dd_i)) : dd_checks[r].state = "ok"
  /\ LET batch == Batch(dd_rule_ids, dd_i)
         batch_results == [k \in 1..Len(batch) |-> dd_checks[batch[k]].result[1]]
         results == dd_drift_results \o batch_results
         checked == dd_checked_rules + Len(batch_results)
         drift == dd_drift_detected + CountDrift(batch_results)
     IN /\ dd_drift_results' = results
        /\ dd_checked_rules' = checked
        /\ dd_drift_detected' = drift
        /\ DDLoop(dd_rule_ids, dd_i + batch_size, results, checked, drift)
  /\ UNCHANGED <<notDD, workflow_type, dd_input, dd_total_rules,
                 dd_notifications_sent, dd_error, dd_rule_ids>>

\* notify_drift_detected_activity returned
DDAfterNotify ==
  /\ dd_pc = "notify"
  /\ dd_call.state = "ok"
  /\ dd_notifications_sent' = dd_call.result[1]
  /\ DDComplete(dd_drift_results, dd_checked_rules, dd_drift_detected,
                dd_call.result[1])
  /\ UNCHANGED <<notDD, workflow_type, dd_input, dd_total_rules,
                 dd_checked_rules, dd_drift_detected, dd_drift_results,
                 dd_error, dd_rule_ids, dd_i, dd_checks, dd_dispatched>>

\* the failure the body meets at its suspension point, if any
DDFailures ==
  CASE dd_pc \in {"get_ids", "notify"} ->
         IF dd_call.state = "failed" THEN {dd_call.msg} ELSE {}
    [] dd_pc = "batch" ->
         {dd_checks[r].msg :
            r \in {x \in Range(Batch(dd_rule_ids, dd_i)) :
                     dd_checks[x].state = "failed"}}
    [] OTHER -> {}

\* "except Exception as e": nothing isolates a failed check from the gather
DDFailed ==
  /\ \E msg \in DDFailures :
       /\ dd_error' = msg
       /\ dd_output' =
            Some(DDOutput("failed", dd_checked_rules, dd_drift_detected,
                          dd_drift_results, dd_notifications_sent, msg))
  /\ dd_status' = "failed"
  /\ dd_pc' = "done"
  /\ dd_checks' = [r \in RuleIds |->
                     IF dd_checks[r].state = "failed" THEN dd_checks[r]
                     ELSE NoCall]
  /\ UNCHANGED <<notDD, workflow_type, dd_input, dd_total_rules,
                 dd_checked_rules, dd_drift_detected, dd_drift_results,
                 dd_notifications_sent, dd_rule_ids, dd_i, dd_dispatched,
                 dd_call>>

DDEnvUnchanged ==
  UNCHANGED <<notDD, workflow_type, dd_input, dd_pc, dd_status,
              dd_total_rules, dd_checked_rules, dd_drift_detected,
              dd_drift_results, dd_notifications_sent, dd_error, dd_rule_ids,
              dd_i, dd_output, dd_dispatched>>

GetAllRuleIdsReturns ==
  /\ dd_pc = "get_ids"
  /\ dd_call.state = "inflight"
  /\ dd_call' = AttemptSucceeds(dd_call, AllRuleIds)
  /\ UNCHANGED dd_checks
  /\ DDEnvUnchanged

NotifyReturns ==
  /\ dd_pc = "notify"
  /\ dd_call.state = "inflight"
  /\ dd_call' =
       AttemptSucceeds(dd_call, NotifyDriftDetected(
                                  SelectSeq(dd_drift_results,
                                            LAMBDA r : r.has_drift)))
  /\ UNCHANGED dd_checks
  /\ DDEnvUnchanged

DDCallAttemptFails(reason) ==
  /\ dd_pc \in {"get_ids", "notify"}
  /\ dd_call.state = "inflight"
  /\ dd_call' = AttemptFails(dd_call, reason)
  /\ UNCHANGED dd_checks
  /\ DDEnvUnchanged

CheckReturns(r) ==
  /\ dd_pc = "batch"
  /\ dd_checks[r].state = "inflight"
  /\ dd_checks' = [dd_checks EXCEPT ![r] = AttemptSucceeds(@, CheckRuleDrift(r))]
  /\ UNCHANGED dd_call
  /\ DDEnvUnchanged

CheckAttemptFails(r, reason) ==
  /\ dd_pc = "batch"
  /\ r \in FlakyRules
  /\ dd_checks[r].state = "inflight"
  /\ dd_checks' = [dd_checks EXCEPT ![r] = AttemptFails(@, reason)]
  /\ UNCHANGED dd_call
  /\ DDEnvUnchanged

DDNext ==
  \/ DDStart
  \/ GetAllRuleIdsReturns
  \/ NotifyReturns
  \/ \E reason \in TransientFailures : DDCallAttemptFails(reason)
  \/ \E r \in RuleIds : CheckReturns(r)
  \/ \E r \in RuleIds : \E reason \in TransientFailures :
       CheckAttemptFails(r, reason)
  \/ DDAfterGetIds
  \/ DDAfterBatch
  \/ DDAfterNotify
  \/ DDFailed

(***************************************************************************)
(* The specifications: one workflow run of each type, and a run of any.    *)
(***************************************************************************)
(***************************************************************************)
(* CrossRuleChecker (verification/cross_rule.py)                           *)
(*                                                                         *)
(* A leaf result is a string the checker lowercases and trims, so strings  *)
(* are sequences of characters here.  Dates are <<year, month, day>>.      *)
(***************************************************************************)
\* how many rules related_rules may hold
MaxRelated == 2


\* pairs of contradicting outcomes
CONTRADICTING_OUTCOMES ==
  {<<<<"p", "e", "r", "m", "i", "t", "t", "e", "d">>,
     <<"p", "r", "o", "h", "i", "b", "i", "t", "e", "d">>>>,
   <<<<"r", "e", "q", "u", "i", "r", "e", "d">>,
     <<"f", "o", "r", "b", "i", "d", "d", "e", "n">>>>,
   <<<<"a", "u", "t", "h", "o", "r", "i", "z", "e", "d">>,
     <<"d", "e", "n", "i", "e", "d">>>>,
   <<<<"c", "o", "m", "p", "l", "i", "a", "n", "t">>,
     <<"n", "o", "n", "_", "c", "o", "m", "p", "l", "i", "a", "n", "t">>>>,
   <<<<"e", "x", "e", "m", "p", "t">>,
     <<"s", "u", "b", "j", "e", "c", "t", "_", "t", "o">>>>,
   <<<<"a", "l", "l", "o", "w", "e", "d">>,
     <<"f", "o", "r", "b", "i", "d", "d", "e", "n">>>>,
   <<<<"m", "a", "n", "d", "a", "t", "o", "r", "y">>,
     <<"o", "p", "t", "i", "o", "n", "a", "l">>>>}

MIN_DATE == <<1900, 1, 1>>
MAX_DATE == <<2999, 12, 31>>

\* str.lower(), character by character
LowerChar(ch) ==
  CASE ch = "A" -> "a" [] ch = "B" -> "b" [] ch = "C" -> "c" [] ch = "D" -> "d"
    [] ch = "E" -> "e" [] ch = "F" -> "f" [] ch = "G" -> "g" [] ch = "H" -> "h"
    [] ch = "I" -> "i" [] ch = "J" -> "j" [] ch = "K" -> "k" [] ch = "L" -> "l"
    [] ch = "M" -> "m" [] ch = "N" -> "n" [] ch = "O" -> "o" [] ch = "P" -> "p"
    [] ch = "Q" -> "q" [] ch = "R" -> "r" [] ch = "S" -> "s" [] ch = "T" -> "t"
    [] ch = "U" -> "u" [] ch = "V" -> "v" [] ch = "W" -> "w" [] ch = "X" -> "x"
    [] ch = "Y" -> "y" [] ch = "Z" -> "z" [] OTHER -> ch

Lower(str) == [i \in 1..Len(str) |-> LowerChar(str[i])]

\* str.strip(): drop the leading and the trailing whitespace
Strip(str) ==
  LET inner == {i \in 1..Len(str) : str[i] \notin {" ", "\t", "\n"}}
  IN IF inner = {} THEN <<>>
     ELSE SubSeq(str, CHOOSE i \in inner : \A j \in inner : i <= j,
                 CHOOSE i \in inner : \A j \in inner : j <= i)

\* the rule model: decision trees and condition trees
DecisionLeaf(result) == [kind |-> "leaf", result |-> result]
DecisionNode(true_branch, false_branch) ==
  [kind |-> "node", true_branch |-> true_branch, false_branch |-> false_branch]
ConditionSpec(field) == [kind |-> "spec", field |-> field]
ConditionGroupSpec(all, any) == [kind |-> "group", all |-> all, any |-> any]

Rule(rule_id, decision_tree, applies_if, effective_from, effective_to) ==
  [rule_id |-> rule_id, decision_tree |-> decision_tree,
   applies_if |-> applies_if, effective_from |-> effective_from,
   effective_to |-> effective_to]

\* _extract_outcomes: the normalised results of the leaves that carry one,
\* true branch before false branch
RECURSIVE Traverse(_)
Traverse(node) ==
  IF node.kind = "leaf"
  THEN IF node.result # <<>> THEN <<Strip(Lower(node.result))>> ELSE <<>>
  ELSE (IF node.true_branch # Null THEN Traverse(node.true_branch[1]) ELSE <<>>)
         \o (IF node.false_branch # Null THEN Traverse(node.false_branch[1])
             ELSE <<>>)

ExtractOutcomes(rule) ==
  IF rule.decision_tree = Null THEN <<>> ELSE Traverse(rule.decision_tree[1])


\* _are_contradicting looking the pair up as given only (before
\* AreContradicting)
AreContradictingAsGiven(outcome1, outcome2) ==
  <<outcome1, outcome2>> \in CONTRADICTING_OUTCOMES

\* _are_contradicting: the pair is in the table in one order or the other
AreContradicting(outcome1, outcome2) ==
  \/ <<outcome1, outcome2>> \in CONTRADICTING_OUTCOMES
  \/ <<outcome2, outcome1>> \in CONTRADICTING_OUTCOMES

\* _extract_condition_fields: the non-empty field names of the leaf conditions
RECURSIVE ExtractConditionFields(_)
ExtractConditionFields(condition) ==
  IF condition.kind = "spec"
  THEN IF condition.field # "" THEN {condition.field} ELSE {}
  ELSE LET items == condition.all \o condition.any
       IN UNION {ExtractConditionFields(items[i]) : i \in 1..Len(items)}

\* _conditions_overlap asking for a common field (before ConditionsOverlap)
ConditionsOverlapCommonField(rule1, rule2) ==
  \/ rule1.applies_if = Null
  \/ rule2.applies_if = Null
  \/ ExtractConditionFields(rule1.applies_if[1])
       \cap ExtractConditionFields(rule2.applies_if[1]) # {}

\* _conditions_overlap: disjoint only when both field sets are non-empty and
\* share no field
ConditionsOverlap(rule1, rule2) ==
  IF rule1.applies_if = Null \/ rule2.applies_if = Null THEN TRUE
  ELSE LET fields1 == ExtractConditionFields(rule1.applies_if[1])
           fields2 == ExtractConditionFields(rule2.applies_if[1])
       IN ~(fields1 # {} /\ fields2 # {} /\ fields1 \cap fields2 = {})

RECURSIVE CountConditions(_)
RECURSIVE CountConditionsIn(_)
\* the loop "for item in ...: count += self._count_conditions(item)"
CountConditionsIn(items) ==
  IF items = <<>> THEN 0
  ELSE CountConditions(Head(items)) + CountConditionsIn(Tail(items))

\* _count_conditions
CountConditions(condition) ==
  IF condition.kind = "spec" THEN 1
  ELSE CountConditionsIn(condition.all) + CountConditionsIn(condition.any)

\* _count_tree_nodes, on leaves only (before CountTreeNodes)
RECURSIVE CountTreeLeaves(_)
CountTreeLeaves(node) ==
  IF node.kind = "leaf" THEN 1
  ELSE (IF node.true_branch # Null THEN CountTreeLeaves(node.true_branch[1])
        ELSE 0)
       + (IF node.false_branch # Null
          THEN CountTreeLeaves(node.false_branch[1]) ELSE 0)

\* _count_tree_nodes
RECURSIVE CountTreeNodes(_)
CountTreeNodes(node) ==
  IF node.kind = "leaf" THEN 1
  ELSE 1 + (IF node.true_branch # Null
            THEN CountTreeNodes(node.true_branch[1]) ELSE 0)
         + (IF node.false_branch # Null
            THEN CountTreeNodes(node.false_branch[1]) ELSE 0)

\* _calculate_specificity
CalculateSpecificity(rule) ==
  (IF rule.applies_if # Null THEN CountConditions(rule.applies_if[1]) ELSE 0)
  + (IF rule.decision_tree # Null THEN CountTreeNodes(rule.decision_tree[1])
     ELSE 0)

\* date.__le__ on <<year, month, day>>
DateLeq(d1, d2) ==
  \/ d1[1] < d2[1]
  \/ d1[1] = d2[1] /\ d1[2] < d2[2]
  \/ d1[1] = d2[1] /\ d1[2] = d2[2] /\ d1[3] <= d2[3]

\* max(s1, s2) and min(e1, e2) of Python: the first argument wins a tie
MaxDate(d1, d2) == IF DateLeq(d2, d1) THEN d1 ELSE d2
MinDate(d1, d2) == IF DateLeq(d1, d2) THEN d1 ELSE d2

\* "start or MIN_DATE"
OrDate(d, default) == IF d = Null THEN default ELSE d[1]

\* _periods_overlap with a strict comparison (before PeriodsOverlap)
PeriodsOverlapStrict(start1, end1, start2, end2) ==
  LET overlap_start == MaxDate(OrDate(start1, MIN_DATE), OrDate(start2, MIN_DATE))
      overlap_end == MinDate(OrDate(end1, MAX_DATE), OrDate(end2, MAX_DATE))
      overlaps == DateLeq(overlap_start, overlap_end) /\ overlap_start # overlap_end
  IN [overlaps |-> overlaps,
      overlap_start |-> IF overlaps THEN Some(overlap_start) ELSE Null,
      overlap_end |-> IF overlaps THEN Some(overlap_end) ELSE Null]

\* a faulty test that asks whether the second period starts within the first
PeriodsOverlapSecondStarts(start1, end1, start2, end2) ==
  LET overlap_start == MaxDate(OrDate(start1, MIN_DATE), OrDate(start2, MIN_DATE))
      overlap_end == MinDate(OrDate(end1, MAX_DATE), OrDate(end2, MAX_DATE))
      overlaps == /\ DateLeq(OrDate(start1, MIN_DATE), OrDate(start2, MIN_DATE))
                  /\ DateLeq(OrDate(start2, MIN_DATE), OrDate(end1, MAX_DATE))
  IN [overlaps |-> overlaps,
      overlap_start |-> IF overlaps THEN Some(overlap_start) ELSE Null,
      overlap_end |-> IF overlaps THEN Some(overlap_end) ELSE Null]

\* _periods_overlap
PeriodsOverlap(start1, end1, start2, end2) ==
  LET overlap_start == MaxDate(OrDate(start1, MIN_DATE), OrDate(start2, MIN_DATE))
      overlap_end == MinDate(OrDate(end1, MAX_DATE), OrDate(end2, MAX_DATE))
      overlaps == DateLeq(overlap_start, overlap_end)
  IN [overlaps |-> overlaps,
      overlap_start |-> IF overlaps THEN Some(overlap_start) ELSE Null,
      overlap_end |-> IF overlaps THEN Some(overlap_end) ELSE Null]

\* "for p_outcome in primary_outcomes: for o_outcome in other_outcomes":
\* the pairs in the order the two loops visit them
OutcomePairs(primary_outcomes, other_outcomes) ==
  LET m == Len(other_outcomes)
  IN [k \in 1..(Len(primary_outcomes) * m) |->
        <<primary_outcomes[((k - 1) \div m) + 1],
          other_outcomes[((k - 1) % m) + 1]>>]

\* the has_conflict loops of check_hierarchy and check_temporal_consistency
HasConflict(rule, other) ==
  \E pair \in Range(OutcomePairs(ExtractOutcomes(rule), ExtractOutcomes(other))) :
    AreContradicting(pair[1], pair[2])


\* ConsistencyEvidence of tier 4; scores are in tenths (1.0 is 10)
ConsistencyEvidence(category, label, score) ==
  [tier |-> 4, category |-> category, label |-> label, score |-> score]

\* the entries check_contradiction appends for one related rule
ContradictionsWith(rule, other) ==
  LET pairs == SelectSeq(OutcomePairs(ExtractOutcomes(rule), ExtractOutcomes(other)),
                         LAMBDA pair : AreContradicting(pair[1], pair[2]))
  IN [k \in 1..Len(pairs) |->
        [rule1_id |-> rule.rule_id, rule1_outcome |-> pairs[k][1],
         rule2_id |-> other.rule_id, rule2_outcome |-> pairs[k][2],
         conditions_overlap |-> ConditionsOverlap(rule, other)]]

\* "for other in self.related_rules", skipping the rule itself
RECURSIVE Contradictions(_, _)
Contradictions(rule, related_rules) ==
  IF related_rules = <<>> THEN <<>>
  ELSE (IF Head(related_rules).rule_id = rule.rule_id THEN <<>>
        ELSE ContradictionsWith(rule, Head(related_rules)))
       \o Contradictions(rule, Tail(related_rules))

\* "if other.rule_id not in contradicting_ids: contradicting_ids.append(...)"
RECURSIVE ContradictingIds(_)
ContradictingIds(contradictions) ==
  IF contradictions = <<>> THEN <<>>
  ELSE LET n == Len(contradictions)
           before == ContradictingIds(SubSeq(contradictions, 1, n - 1))
           id == contradictions[n].rule2_id
       IN IF id \in Range(before) THEN before ELSE Append(before, id)

\* check_contradiction: the ContradictionResult and the evidence returned
CheckContradiction(rule, related_rules) ==
  IF related_rules = <<>>
  THEN [result |-> Null,
        evidence |-> ConsistencyEvidence("no_contradiction", "pass", 10)]
  ELSE
    LET contradictions == Contradictions(rule, related_rules)
        has_overlap == \E c \in Range(contradictions) : c.conditions_overlap
        severity == IF contradictions = <<>> THEN "none"
                    ELSE IF has_overlap THEN "high" ELSE "low"
    IN [result |-> Some([has_contradiction |-> Len(contradictions) > 0,
                         contradicting_rule_ids |-> ContradictingIds(contradictions),
                         contradiction_pairs |-> contradictions,
                         severity |-> severity]),
        evidence |->
          IF contradictions = <<>>
          THEN ConsistencyEvidence("no_contradiction", "pass", 10)
          ELSE IF has_overlap
               THEN ConsistencyEvidence("no_contradiction", "fail", 2)
               ELSE ConsistencyEvidence("no_contradiction", "warning", 7)]

\* the violation check_hierarchy appends for one related rule, if any
ViolationsWith(rule, other) ==
  LET primary_specificity == CalculateSpecificity(rule)
      other_specificity == CalculateSpecificity(other)
  IN IF HasConflict(rule, other) /\ primary_specificity # other_specificity
     THEN <<[more_specific_rule |->
               IF primary_specificity > other_specificity THEN rule.rule_id
               ELSE other.rule_id,
             less_specific_rule |->
               IF primary_specificity > other_specificity THEN other.rule_id
               ELSE rule.rule_id,
             more_specific_score |->
               IF primary_specificity > other_specificity
               THEN primary_specificity ELSE other_specificity,
             less_specific_score |->
               IF primary_specificity > other_specificity
               THEN other_specificity ELSE primary_specificity]>>
     ELSE <<>>

RECURSIVE Violations(_, _)
Violations(rule, related_rules) ==
  IF related_rules = <<>> THEN <<>>
  ELSE (IF Head(related_rules).rule_id = rule.rule_id THEN <<>>
        ELSE ViolationsWith(rule, Head(related_rules)))
       \o Violations(rule, Tail(related_rules))

\* check_hierarchy: the HierarchyResult and the evidence returned
CheckHierarchy(rule, related_rules) ==
  IF related_rules = <<>>
  THEN [result |-> Null,
        evidence |-> ConsistencyEvidence("hierarchy_consistent", "pass", 10)]
  ELSE
    LET violations == Violations(rule, related_rules)
    IN [result |-> Some([is_consistent |-> Len(violations) = 0,
                         violations |-> violations]),
        evidence |->
          IF violations = <<>>
          THEN ConsistencyEvidence("hierarchy_consistent", "pass", 10)
          ELSE ConsistencyEvidence("hierarchy_consistent", "warning", 6)]

\* the conflict check_temporal_consistency appends for one related rule, if any
ConflictsWith(rule, other) ==
  IF ~HasConflict(rule, other) THEN <<>>
  ELSE LET overlap == PeriodsOverlap(rule.effective_from, rule.effective_to,
                                     other.effective_from, other.effective_to)
       IN IF overlap.overlaps
          THEN <<[rule1_id |-> rule.rule_id, rule2_id |-> other.rule_id,
                  overlap_start |-> overlap.overlap_start,
                  overlap_end |-> overlap.overlap_end]>>
          ELSE <<>>

RECURSIVE OverlappingConflicts(_, _)
OverlappingConflicts(rule, related_rules) ==
  IF related_rules = <<>> THEN <<>>
  ELSE (IF Head(related_rules).rule_id = rule.rule_id THEN <<>>
        ELSE ConflictsWith(rule, Head(related_rules)))
       \o OverlappingConflicts(rule, Tail(related_rules))

\* check_temporal_consistency: the TemporalResult and the evidence returned
CheckTemporalConsistency(rule, related_rules) ==
  IF related_rules = <<>>
  THEN [result |-> Null,
        evidence |-> ConsistencyEvidence("temporal_consistent", "pass", 10)]
  ELSE
    LET overlapping_conflicts == OverlappingConflicts(rule, related_rules)
    IN [result |-> Some([is_consistent |-> Len(overlapping_conflicts) = 0,
                         overlapping_conflicts |-> overlapping_conflicts]),
        evidence |->
          IF overlapping_conflicts = <<>>
          THEN ConsistencyEvidence("temporal_consistent", "pass", 10)
          ELSE ConsistencyEvidence("temporal_consistent", "warning", 5)]


\* the rules the checks are run on: leaf results in several spellings, trees
\* with absent branches and an empty result, applies_if absent, empty, flat
\* and nested, validity periods closed, half-open and absent
Date(year, month, day) == Some(<<year, month, day>>)

RuleCatalog ==
  {Rule("r1", Some(DecisionLeaf(<<"P", "e", "r", "m", "i", "t", "t", "e", "d">>)), Some(ConditionSpec("x")),
        Date(2024, 1, 1), Date(2024, 6, 30)),
   Rule("r2", Some(DecisionNode(Some(DecisionLeaf(<<" ", "p", "r", "o", "h", "i", "b", "i", "t", "e", "d", " ">>)),
                                Some(DecisionLeaf(<<"e", "x", "e", "m", "p", "t">>)))),
        Some(ConditionGroupSpec(<<ConditionSpec("x"), ConditionSpec("y")>>, <<>>)),
        Date(2024, 6, 1), Date(2024, 12, 31)),
   Rule("r3", Some(DecisionLeaf(<<"P", "R", "O", "H", "I", "B", "I", "T", "E", "D">>)), Some(ConditionSpec("z")),
        Date(2024, 7, 1), Date(2024, 12, 31)),
   Rule("r4", Some(DecisionNode(
                     Some(DecisionNode(Some(DecisionLeaf(<<"f", "o", "r", "b", "i", "d", "d", "e", "n">>)),
                                       Some(DecisionLeaf(<<>>)))),
                     Some(DecisionLeaf(<<"S", "u", "b", "j", "e", "c", "t", "_", "T", "o">>)))),
        Null, Null, Null),
   Rule("r5", Some(DecisionNode(Null, Some(DecisionLeaf(<<"R", "E", "Q", "U", "I", "R", "E", "D">>)))),
        Some(ConditionGroupSpec(<<>>, <<>>)), Null, Date(2024, 6, 30)),
   Rule("r1", Some(DecisionLeaf(<<" ", "p", "r", "o", "h", "i", "b", "i", "t", "e", "d">>)), Null, Null, Null),
   Rule("r7", Null, Some(ConditionSpec("x")), Date(2024, 6, 30), Null),
   Rule("r8", Some(DecisionNode(
                     Some(DecisionNode(Some(DecisionLeaf(<<"a", "l", "l", "o", "w", "e", "d">>)),
                                       Some(DecisionLeaf(<<"A", "u", "t", "h", "o", "r", "i", "z", "e", "d">>)))),
                     Some(DecisionNode(Some(DecisionLeaf(<<"C", "O", "M", "P", "L", "I", "A", "N", "T", " ">>)),
                                       Some(DecisionLeaf(<<"\t", "m", "a", "n", "d", "a", "t", "o", "r", "y">>)))))),
        Some(ConditionGroupSpec(<<>>,
               <<ConditionSpec("z"),
                 ConditionGroupSpec(<<ConditionSpec("")>>, <<>>)>>)),
        Date(2024, 6, 1), Date(2024, 12, 31)),
   Rule("r9", Some(DecisionNode(
                     Some(DecisionLeaf(<<"d", "e", "n", "i", "e", "d">>)),
                     Some(DecisionNode(
                            Some(DecisionLeaf(<<"n", "o", "n", "_", "c", "o", "m", "p", "l", "i", "a", "n", "t">>)),
                            Some(DecisionNode(Some(DecisionLeaf(<<"O", "p", "t", "i", "o", "n", "a", "l">>)),
                                              Some(DecisionLeaf(<<"f", "o", "r", "b", "i", "d", "d", "e", "n">>)))))))),
        Some(ConditionSpec("w")), Date(2024, 6, 30), Date(2024, 6, 30))}

XRConstructed ==
  /\ xr_contradiction = Null
  /\ xr_hierarchy = Null
  /\ xr_temporal = Null
  /\ xr_all = Null

\* no checker in use
XRIdle == xr_rule = Null /\ xr_related_rules = <<>> /\ XRConstructed

\* CrossRuleChecker(related_rules), a list of at most MaxRelated rules, and the
\* rule the checks are called on
XRInit ==
  /\ xr_rule \in {Some(r) : r \in RuleCatalog}
  /\ xr_related_rules \in UNION {[1..n -> RuleCatalog] : n \in 0..MaxRelated}
  /\ XRConstructed

notXR == <<workflow_type, rvVars, ccVars, cfVars, ddVars, checkerVars>>

\* check_contradiction(rule)
XRCheckContradiction ==
  /\ xr_rule # Null
  /\ xr_contradiction = Null
  /\ xr_contradiction' = Some(CheckContradiction(xr_rule[1], xr_related_rules))
  /\ UNCHANGED <<notXR, xr_rule, xr_related_rules, xr_hierarchy, xr_temporal,
                 xr_all>>

\* check_hierarchy(rule)
XRCheckHierarchy ==
  /\ xr_rule # Null
  /\ xr_hierarchy = Null
  /\ xr_hierarchy' = Some(CheckHierarchy(xr_rule[1], xr_related_rules))
  /\ UNCHANGED <<notXR, xr_rule, xr_related_rules, xr_contradiction, xr_temporal,
                 xr_all>>

\* check_temporal_consistency(rule)
XRCheckTemporalConsistency ==
  /\ xr_rule # Null
  /\ xr_temporal = Null
  /\ xr_temporal' = Some(CheckTemporalConsistency(xr_rule[1], xr_related_rules))
  /\ UNCHANGED <<notXR, xr_rule, xr_related_rules, xr_contradiction, xr_hierarchy,
                 xr_all>>

\* a faulty check_all that lists the hierarchy check first
CheckAllHierarchyFirst(rule, related_rules) ==
  <<CheckHierarchy(rule, related_rules).evidence,
    CheckContradiction(rule, related_rules).evidence,
    CheckTemporalConsistency(rule, related_rules).evidence>>

\* check_all: the evidence of the three checks, as a list
CheckAll(rule, related_rules) ==
  <<CheckContradiction(rule, related_rules).evidence,
    CheckHierarchy(rule, related_rules).evidence,
    CheckTemporalConsistency(rule, related_rules).evidence>>

\* check_cross_rule_consistency(rule, related_rules), related_rules a list or
\* None: the constructor keeps "related_rules or []"
CheckCrossRuleConsistency(rule, related_rules) ==
  CheckAll(rule, IF related_rules = Null THEN <<>> ELSE related_rules[1])

\* check_all(rule) on a checker not used yet: the three checks run, and their
\* evidence is returned as one list
XRCheckAll ==
  /\ xr_rule # Null
  /\ XRConstructed
  /\ xr_contradiction' = Some(CheckContradiction(xr_rule[1], xr_related_rules))
  /\ xr_hierarchy' = Some(CheckHierarchy(xr_rule[1], xr_related_rules))
  /\ xr_temporal' = Some(CheckTemporalConsistency(xr_rule[1], xr_related_rules))
  /\ xr_all' = Some(CheckAll(xr_rule[1], xr_related_rules))
  /\ UNCHANGED <<notXR, xr_rule, xr_related_rules>>

XRNext ==
  \/ XRCheckContradiction
  \/ XRCheckHierarchy
  \/ XRCheckTemporalConsistency
  \/ XRCheckAll

(***************************************************************************)
(* NLIChecker (verification/nli.py)                                        *)
(*                                                                         *)
(* Texts are sequences of characters.  A score is a whole number of        *)
(* 1/6000, which holds the hundredths the code writes and the overlap      *)
(* ratios of hypotheses of up to six tokens exactly.                       *)
(***************************************************************************)
\* how many hypotheses a rule may yield
MaxHypotheses == 3

\* a score written in hundredths
Hundredths(n) == n * 60

Letters ==
  {"a", "b", "c", "d", "e", "f", "g", "h", "i", "j", "k", "l", "m", "n", "o",
   "p", "q", "r", "s", "t", "u", "v", "w", "x", "y", "z"}

\* \w of the regular expressions, on lowercased text
WordChars == Letters \cup {"0", "1", "2", "3", "4", "5", "6", "7", "8", "9", "_"}

\* \b before position k of the text: exactly one side is a word character
WordBoundary(text, k) ==
  (k - 1 \in 1..Len(text) /\ text[k - 1] \in WordChars)
    # (k \in 1..Len(text) /\ text[k] \in WordChars)

\* re.search(r"\b<marker>\b", text)
SearchWord(marker, text) ==
  \E i \in 1..(Len(text) - Len(marker) + 1) :
    /\ SubSeq(text, i, i + Len(marker) - 1) = marker
    /\ WordBoundary(text, i)
    /\ WordBoundary(text, i + Len(marker))

\* set(re.findall(r"\b[a-zA-Z]{n,}\b", text)): the runs of at least n letters
\* between two word boundaries
LetterRuns(text, n) ==
  {SubSeq(text, i, j) : <<i, j>> \in
     {ij \in (1..Len(text)) \X (1..Len(text)) :
        /\ ij[2] - ij[1] + 1 >= n
        /\ \A k \in ij[1]..ij[2] : text[k] \in Letters
        /\ WordBoundary(text, ij[1])
        /\ WordBoundary(text, ij[2] + 1)}}

negation_patterns ==
  {<<"n", "o", "t">>, <<"n", "o">>, <<"n", "e", "v", "e", "r">>, <<"w", "i", "t", "h", "o", "u", "t">>,
   <<"p", "r", "o", "h", "i", "b", "i", "t", "e", "d">>,
   <<"f", "o", "r", "b", "i", "d", "d", "e", "n">>,
   <<"e", "x", "c", "l", "u", "d", "e", "d">>,
   <<"d", "e", "n", "i", "e", "d">>, <<"n", "'", "t">>}

\* _has_negation
HasNegation(text) == \E marker \in negation_patterns : SearchWord(marker, text)

NLIResult(label, confidence, entailment_score, neutral_score, contradiction_score) ==
  [label |-> label, confidence |-> confidence,
   entailment_score |-> entailment_score, neutral_score |-> neutral_score,
   contradiction_score |-> contradiction_score]

\* _classify_heuristic
ClassifyHeuristic(premise, hypothesis) ==
  LET premise_lower == Lower(premise)
      hypothesis_lower == Lower(hypothesis)
      premise_tokens == LetterRuns(premise_lower, 3)
      hypothesis_tokens == LetterRuns(hypothesis_lower, 3)
      overlap == premise_tokens \cap hypothesis_tokens
      \* overlap_ratio, in 1/6000
      overlap_ratio == (6000 * Cardinality(overlap)) \div Cardinality(hypothesis_tokens)
      confidence == Hundredths(50) + (overlap_ratio - Hundredths(70))
  IN IF HasNegation(premise_lower) # HasNegation(hypothesis_lower)
     THEN NLIResult("contradiction", Hundredths(60), Hundredths(20),
                    Hundredths(20), Hundredths(60))
     ELSE IF hypothesis_tokens = {}
     THEN NLIResult("neutral", Hundredths(40), Hundredths(30), Hundredths(40),
                    Hundredths(30))
     ELSE IF overlap_ratio > Hundredths(70)
     THEN NLIResult("entailment",
                    IF confidence < Hundredths(80) THEN confidence
                    ELSE Hundredths(80),
                    confidence, Hundredths(15), Hundredths(5))
     ELSE IF overlap_ratio > Hundredths(40)
     THEN NLIResult("neutral", Hundredths(50), Hundredths(30), Hundredths(50),
                    Hundredths(20))
     ELSE NLIResult("neutral", Hundredths(40), Hundredths(25), Hundredths(40),
                    Hundredths(35))

\* the scores the transformer pipeline may return for one input
PipelineScores ==
  {[entailment |-> Hundredths(5), neutral |-> Hundredths(5),
    contradiction |-> Hundredths(90)],
   [entailment |-> Hundredths(80), neutral |-> Hundredths(15),
    contradiction |-> Hundredths(5)]}

\* _classify_ml, given the pipeline's scores: max(scores, key=scores.get)
\* takes the first of entailment, neutral, contradiction that is largest
ClassifyML(scores) ==
  LET max_label ==
        IF scores.entailment >= scores.neutral
           /\ scores.entailment >= scores.contradiction THEN "entailment"
        ELSE IF scores.neutral >= scores.contradiction THEN "neutral"
        ELSE "contradiction"
  IN NLIResult(max_label, scores[max_label], scores.entailment, scores.neutral,
               scores.contradiction)

\* sum(f(r) for r in results)
RECURSIVE SumOf(_, _)
SumOf(results, component) ==
  IF results = <<>> THEN 0
  ELSE results[1][component] + SumOf(Tail(results), component)

\* a quotient sum / len(results), kept as the pair it is made of
Quotient(sum, count) == [sum |-> sum, count |-> count]

\* a faulty vote that resolves ties in the order contradiction, neutral,
\* entailment
WinningLabelLastWins(results) ==
  LET count(label) == Cardinality({i \in 1..Len(results) : results[i].label = label})
  IN IF count("contradiction") >= count("neutral")
        /\ count("contradiction") >= count("entailment") THEN "contradiction"
     ELSE IF count("neutral") >= count("entailment") THEN "neutral"
     ELSE "entailment"

\* max(label_counts, key=label_counts.get): the first of entailment, neutral,
\* contradiction with the largest count
WinningLabel(results) ==
  LET count(label) == Cardinality({i \in 1..Len(results) : results[i].label = label})
  IN IF count("entailment") >= count("neutral")
        /\ count("entailment") >= count("contradiction") THEN "entailment"
     ELSE IF count("neutral") >= count("contradiction") THEN "neutral"
     ELSE "contradiction"

\* the least contradiction confidence instead of the greatest (before
\* MaxContradictionConfidence)
MinContradictionConfidence(results) ==
  LET cs == {results[i].confidence : i \in
               {j \in 1..Len(results) : results[j].label = "contradiction"}}
  IN CHOOSE c \in cs : \A d \in cs : c <= d

\* max(r.confidence for r in results if r.label == CONTRADICTION)
MaxContradictionConfidence(results) ==
  LET cs == {results[i].confidence : i \in
               {j \in 1..Len(results) : results[j].label = "contradiction"}}
  IN CHOOSE c \in cs : \A d \in cs : d <= c

\* _aggregate_results; the means are quotients, confidence included
AggregateResults(results) ==
  IF results = <<>>
  THEN NLIResult("neutral", Quotient(Hundredths(50), 1),
                 Quotient(Hundredths(33), 1), Quotient(Hundredths(34), 1),
                 Quotient(Hundredths(33), 1))
  ELSE
    LET n == Len(results)
        avg_entailment == Quotient(SumOf(results, "entailment_score"), n)
        avg_neutral == Quotient(SumOf(results, "neutral_score"), n)
        avg_contradiction == Quotient(SumOf(results, "contradiction_score"), n)
    IN IF \E r \in Range(results) :
            r.label = "contradiction" /\ r.confidence > Hundredths(60)
       THEN NLIResult("contradiction",
                      Quotient(MaxContradictionConfidence(results), 1),
                      avg_entailment, avg_neutral, avg_contradiction)
       ELSE NLIResult(WinningLabel(results),
                      Quotient(SumOf(results, "confidence"), n),
                      avg_entailment, avg_neutral, avg_contradiction)

\* the texts the checker is run on
Texts ==
  {<<"X", " ", "i", "s", " ", "p", "e", "r", "m", "i", "t", "t", "e", "d">>,
   <<"X", " ", "i", "s", " ", "N", "O", "T", " ", "p", "e", "r", "m", "i", "t", "t", "e", "d">>,
   <<"X", " ", "i", "s", "n", "'", "t", " ", "p", "e", "r", "m", "i", "t", "t", "e", "d">>,
   <<"N", "o", " ", "b", "a", "n", "k", "s", " ", "r", "e", "p", "o", "r", "t">>}

NLIConstructed == nli_results = <<>> /\ nli_aggregated = Null

\* no NLIChecker in use
NLIIdle ==
  /\ nli_use_ml = FALSE
  /\ nli_premise = <<>>
  /\ nli_hypotheses = <<>>
  /\ NLIConstructed

\* NLIChecker(use_ml) and check_entailment(rule, source_text) with a source
\* text and at most MaxHypotheses hypotheses
NLIInit ==
  /\ nli_use_ml \in BOOLEAN
  /\ nli_premise \in Texts
  /\ nli_hypotheses \in UNION {[1..n -> Texts] : n \in 1..MaxHypotheses}
  /\ NLIConstructed

notNLI ==
  <<workflow_type, rvVars, ccVars, cfVars, ddVars, xrVars, simVars, mlVars, taVars,
    fbVars, rdVars>>

\* the next hypothesis goes through _classify_heuristic: use_ml is off, or
\* _classify_ml has no pipeline or caught an exception
NLIClassifyHeuristic ==
  /\ nli_premise # <<>>
  /\ Len(nli_results) < Len(nli_hypotheses)
  /\ nli_results' =
       Append(nli_results,
              ClassifyHeuristic(nli_premise, nli_hypotheses[Len(nli_results) + 1]))
  /\ UNCHANGED <<notNLI, nli_use_ml, nli_premise, nli_hypotheses, nli_aggregated>>

\* the next hypothesis goes through the pipeline of _classify_ml
NLIClassifyML ==
  /\ nli_use_ml
  /\ Len(nli_results) < Len(nli_hypotheses)
  /\ \E scores \in PipelineScores :
       nli_results' = Append(nli_results, ClassifyML(scores))
  /\ UNCHANGED <<notNLI, nli_use_ml, nli_premise, nli_hypotheses, nli_aggregated>>

\* aggregated = self._aggregate_results(results)
NLIAggregate ==
  /\ nli_hypotheses # <<>>
  /\ Len(nli_results) = Len(nli_hypotheses)
  /\ nli_aggregated = Null
  /\ nli_aggregated' = Some(AggregateResults(nli_results))
  /\ UNCHANGED <<notNLI, nli_use_ml, nli_premise, nli_hypotheses, nli_results>>

NLINext ==
  \/ NLIClassifyHeuristic
  \/ NLIClassifyML
  \/ NLIAggregate

(***************************************************************************)
(* EmbeddingChecker, heuristic similarity (verification/embeddings.py)     *)
(*                                                                         *)
(* A ratio is kept as numerator and denominator.  The cosine is kept as    *)
(* its square, so no root is taken, and the two IDF weights ln(3/2) + 1    *)
(* and ln(3/3) + 1 are taken as 7/5 and 1.  The score is the weighted sum  *)
(* of the three components; the result keeps the components.               *)
(***************************************************************************)
Ratio(num, den) == [num |-> num, den |-> den]

\* the sum of the values of a function
RECURSIVE SumFn(_)
SumFn(f) ==
  IF DOMAIN f = {} THEN 0
  ELSE LET x == CHOOSE y \in DOMAIN f : TRUE
       IN f[x] + SumFn([y \in DOMAIN f \ {x} |-> f[y]])

\* tokens.count(t) for the list _tokenize returns:
\* re.findall(r"\b[a-zA-Z]{2,}\b", text.lower())
TokenCount(text, t) ==
  LET lower == Lower(text)
  IN Cardinality({i \in 1..Len(lower) :
       /\ i + Len(t) - 1 <= Len(lower)
       /\ SubSeq(lower, i, i + Len(t) - 1) = t
       /\ WordBoundary(lower, i)
       /\ WordBoundary(lower, i + Len(t))})

\* set(_tokenize(text))
Tokenize(text) == LetterRuns(Lower(text), 2)

\* _tfidf_overlap with _cosine_similarity: the square of the cosine of the two
\* TF-IDF vectors, the weights being five times the IDF
TfidfOverlap(text1, text2) ==
  LET all_tokens == Tokenize(text1) \cup Tokenize(text2)
      df(t) == (IF t \in Tokenize(text1) THEN 1 ELSE 0)
               + (IF t \in Tokenize(text2) THEN 1 ELSE 0)
      idf(t) == IF df(t) = 2 THEN 5 ELSE 7
      vec1 == [t \in all_tokens |-> TokenCount(text1, t) * idf(t)]
      vec2 == [t \in all_tokens |-> TokenCount(text2, t) * idf(t)]
      dot_product == SumFn([t \in all_tokens |-> vec1[t] * vec2[t]])
      norm1 == SumFn([t \in all_tokens |-> vec1[t] * vec1[t]])
      norm2 == SumFn([t \in all_tokens |-> vec2[t] * vec2[t]])
  IN IF norm1 = 0 \/ norm2 = 0 THEN Ratio(0, 1)
     ELSE Ratio(dot_product * dot_product, norm1 * norm2)

\* set(text[i:i+n] for i in range(len(text) - n + 1))
Ngrams(text, n) == {SubSeq(text, i, i + n - 1) : i \in 1..(Len(text) - n + 1)}

\* the share one n contributes to total_score in _ngram_similarity
NgramJaccard(text1, text2, n) ==
  LET ngrams1 == Ngrams(Lower(text1), n)
      ngrams2 == Ngrams(Lower(text2), n)
  IN IF ngrams1 # {} /\ ngrams2 # {}
     THEN Ratio(Cardinality(ngrams1 \cap ngrams2), Cardinality(ngrams1 \cup ngrams2))
     ELSE Ratio(0, 1)

\* _ngram_similarity with n_values = [2, 3]: total_score / len(n_values)
NgramSimilarity(text1, text2) ==
  LET two == NgramJaccard(text1, text2, 2)
      three == NgramJaccard(text1, text2, 3)
  IN Ratio(two.num * three.den + three.num * two.den, 2 * two.den * three.den)

\* _jaccard_similarity
JaccardSimilarity(text1, text2) ==
  LET set1 == Tokenize(text1)
      set2 == Tokenize(text2)
  IN IF set1 = {} /\ set2 = {} THEN Ratio(0, 1)
     ELSE Ratio(Cardinality(set1 \cap set2), Cardinality(set1 \cup set2))

\* _compute_heuristic_similarity: score 0.0 when a text has no token, else
\* 0.4 * tfidf + 0.35 * ngram + 0.25 * jaccard
ComputeHeuristicSimilarity(text1, text2) ==
  IF Tokenize(text1) = {} \/ Tokenize(text2) = {}
  THEN [tokenized |-> FALSE, tfidf_squared |-> Ratio(0, 1),
        ngram |-> Ratio(0, 1), jaccard |-> Ratio(0, 1)]
  ELSE [tokenized |-> TRUE, tfidf_squared |-> TfidfOverlap(text1, text2),
        ngram |-> NgramSimilarity(text1, text2),
        jaccard |-> JaccardSimilarity(text1, text2)]

\* the texts the similarity is computed on
SimilarityTexts ==
  {<<"E", "U">>,
   <<"o", "f">>,
   <<"B", "a", "n", "k", "s", " ", "r", "e", "p", "o", "r", "t">>,
   <<"b", "a", "n", "k", "s", " ", "r", "e", "p", "o", "r", "t">>,
   <<"r", "e", "p", "o", "r", "t", " ", "b", "a", "n", "k", "s">>,
   <<"X", " ", "i", "s", " ", "p", "e", "r", "m", "i", "t", "t", "e", "d">>,
   <<"X", " ", "i", "s", " ", "N", "O", "T", " ", "p", "e", "r", "m", "i", "t", "t", "e", "d">>,
   <<"a", " ", "b">>,
   <<"n", "o", " ", "n", "o", " ", "b", "a", "n", "k", "s">>,
   <<>>}

\* no EmbeddingChecker in use
SIMIdle ==
  /\ sim_text1 = <<>>
  /\ sim_text2 = <<>>
  /\ sim_result = Null
  /\ sim_previous = Null

SIMInit ==
  /\ sim_text1 \in SimilarityTexts
  /\ sim_text2 \in SimilarityTexts
  /\ sim_result = Null
  /\ sim_previous = Null

\* _compute_heuristic_similarity(text1, text2)
SIMComputeHeuristicSimilarity ==
  /\ sim_result = Null
  /\ sim_result' = Some(ComputeHeuristicSimilarity(sim_text1, sim_text2))
  /\ UNCHANGED <<workflow_type, rvVars, ccVars, cfVars, ddVars, xrVars, nliVars,
                 mlVars, taVars, fbVars, rdVars, sim_text1, sim_text2, sim_previous>>

\* _compute_similarity(text2, text1): the same call with the texts exchanged
SIMExchange ==
  /\ sim_result # Null
  /\ sim_previous = Null
  /\ sim_previous' = sim_result
  /\ sim_text1' = sim_text2
  /\ sim_text2' = sim_text1
  /\ sim_result' = Some(ComputeHeuristicSimilarity(sim_text2, sim_text1))
  /\ UNCHANGED <<workflow_type, rvVars, ccVars, cfVars, ddVars, xrVars, nliVars,
                 mlVars, taVars, fbVars, rdVars>>

SIMNext ==
  \/ SIMComputeHeuristicSimilarity
  \/ SIMExchange

(***************************************************************************)
(* The model singleton of EmbeddingChecker (verification/embeddings.py);   *)
(* NLIChecker._get_pipeline has the same shape.  Callers are threads of    *)
(* one process; a step is what a caller does without being preempted.      *)
(***************************************************************************)
\* how many callers reach _get_model
MaxCallers == 2

Callers == 1..MaxCallers

\* no caller anywhere in _get_model, nothing loaded
MLIdle ==
  /\ ml_available = FALSE
  /\ ml_model = Null
  /\ ml_model_loaded = FALSE
  /\ ml_pc = <<>>
  /\ ml_built = <<>>
  /\ ml_returned = <<>>
  /\ ml_constructions = 0

\* the class attributes as declared, every caller about to call _get_model
MLInit ==
  /\ ml_available \in BOOLEAN
  /\ ml_model = Null
  /\ ml_model_loaded = FALSE
  /\ ml_pc = [c \in Callers |-> "call"]
  /\ ml_built = [c \in Callers |-> Null]
  /\ ml_returned = [c \in Callers |-> Null]
  /\ ml_constructions = 0

notML ==
  <<workflow_type, rvVars, ccVars, cfVars, ddVars, xrVars, nliVars, simVars, taVars,
    fbVars, rdVars>>

\* "if not cls._model_loaded:"
MLTestLoaded(c) ==
  /\ ml_pc[c] = "call"
  /\ ml_pc' = [ml_pc EXCEPT ![c] = IF ml_model_loaded THEN "return" ELSE "load"]
  /\ UNCHANGED <<notML, ml_available, ml_model, ml_model_loaded, ml_built,
                 ml_returned, ml_constructions>>

\* "if embedding_available(): try: ... SentenceTransformer(cls.MODEL_NAME)":
\* the constructor runs, and either yields a new model or raises
MLConstruct(c) ==
  /\ ml_pc[c] = "load"
  /\ IF ml_available
     THEN /\ ml_constructions' = ml_constructions + 1
          /\ \E raised \in BOOLEAN :
               ml_built' = [ml_built EXCEPT
                 ![c] = IF raised THEN Null ELSE Some(ml_constructions + 1)]
          /\ ml_pc' = [ml_pc EXCEPT ![c] = "assign"]
     ELSE /\ ml_pc' = [ml_pc EXCEPT ![c] = "loaded"]
          /\ UNCHANGED <<ml_built, ml_constructions>>
  /\ UNCHANGED <<notML, ml_available, ml_model, ml_model_loaded, ml_returned>>

\* "cls._model = <the new model>", or "except Exception: cls._model = None"
MLAssign(c) ==
  /\ ml_pc[c] = "assign"
  /\ ml_model' = ml_built[c]
  /\ ml_pc' = [ml_pc EXCEPT ![c] = "loaded"]
  /\ UNCHANGED <<notML, ml_available, ml_model_loaded, ml_built, ml_returned,
                 ml_constructions>>

\* a faulty flag that records only a load that produced a model
MLSetLoadedOnSuccess(c) ==
  /\ ml_pc[c] = "loaded"
  /\ ml_model_loaded' = (ml_model # Null)
  /\ ml_pc' = [ml_pc EXCEPT ![c] = "return"]
  /\ UNCHANGED <<notML, ml_available, ml_model, ml_built, ml_returned,
                 ml_constructions>>

\* "cls._model_loaded = True"
MLSetLoaded(c) ==
  /\ ml_pc[c] = "loaded"
  /\ ml_model_loaded' = TRUE
  /\ ml_pc' = [ml_pc EXCEPT ![c] = "return"]
  /\ UNCHANGED <<notML, ml_available, ml_model, ml_built, ml_returned,
                 ml_constructions>>

\* "return cls._model"
MLReturn(c) ==
  /\ ml_pc[c] = "return"
  /\ ml_returned' = [ml_returned EXCEPT ![c] = Some(ml_model)]
  /\ ml_pc' = [ml_pc EXCEPT ![c] = "done"]
  /\ UNCHANGED <<notML, ml_available, ml_model, ml_model_loaded, ml_built,
                 ml_constructions>>

MLNext ==
  \/ \E c \in Callers : MLTestLoaded(c)
  \/ \E c \in Callers : MLConstruct(c)
  \/ \E c \in Callers : MLAssign(c)
  \/ \E c \in Callers : MLSetLoaded(c)
  \/ \E c \in Callers : MLReturn(c)

(***************************************************************************)
(* The tier activities verify_tier_1_activity .. verify_tier_4_activity    *)
(* (workflows/activities.py) and the early-termination test the workflow   *)
(* applies to what they return.  Scores are in tenths.                     *)
(***************************************************************************)
\* how many evidence items the checks of one tier produce
MaxEvidence == 2

\* evidence items as the checks label them
EvidenceItems ==
  {[label |-> "pass", score |-> 10],
   [label |-> "warning", score |-> 5],
   [label |-> "fail", score |-> 0]}

EvidenceLists == UNION {[1..n -> EvidenceItems] : n \in 0..MaxEvidence}

\* e.label == l, for an evidence dict that may have no "label" key
IsLabelled(e, l) == "label" \in DOMAIN e /\ e.label = l

\* a faulty pass test that lets only pass-labelled evidence through
AllLabelledPass(evidence) ==
  \A i \in 1..Len(evidence) : IsLabelled(evidence[i], "pass")

\* "all(e.label != "fail" for e in result.evidence)"
NoneLabelledFail(evidence) ==
  \A i \in 1..Len(evidence) : ~IsLabelled(evidence[i], "fail")

\* "sum(1 for e in result.evidence if e.label == "pass")"
ChecksPassed(evidence) ==
  Cardinality({i \in 1..Len(evidence) : IsLabelled(evidence[i], "pass")})

\* "sum(e.score for e in result.evidence) / checks_run if checks_run else 0"
EvidenceAvgScore(evidence) ==
  IF Len(evidence) = 0 THEN Quotient(0, 1)
  ELSE Quotient(SumFn([i \in 1..Len(evidence) |-> evidence[i].score]),
                Len(evidence))

\* the TierResult of verify_tier_N_activity, N in 1..4
VerifyTier(tier, rule_found, evidence) ==
  IF ~rule_found
  THEN [tier |-> tier, passed |-> FALSE, score |-> Quotient(0, 1),
        checks_run |-> 0, checks_passed |-> 0,
        evidence |-> <<[error |-> "Rule not found"]>>]
  ELSE [tier |-> tier, passed |-> NoneLabelledFail(evidence),
        score |-> EvidenceAvgScore(evidence),
        checks_run |-> Len(evidence),
        checks_passed |-> ChecksPassed(evidence),
        evidence |-> evidence]

TAIdle ==
  /\ ta_tier = 1
  /\ ta_rule_found = TRUE
  /\ ta_evidence = <<>>
  /\ ta_fail_fast = TRUE
  /\ ta_result = Null
  /\ ta_stops = Null

\* one of the four activities about to be called by a workflow run
TAInit ==
  /\ ta_tier \in 1..4
  /\ ta_rule_found \in BOOLEAN
  /\ ta_evidence \in EvidenceLists
  /\ ta_fail_fast \in BOOLEAN
  /\ ta_result = Null
  /\ ta_stops = Null

notTA ==
  <<workflow_type, rvVars, ccVars, cfVars, ddVars, xrVars, nliVars, simVars, mlVars,
    fbVars, rdVars>>

\* verify_tier_N_activity runs and returns
TAVerifyTier ==
  /\ ta_result = Null
  /\ ta_result' = Some(VerifyTier(ta_tier, ta_rule_found, ta_evidence))
  /\ UNCHANGED <<notTA, ta_tier, ta_rule_found, ta_evidence, ta_fail_fast, ta_stops>>

\* "if input.fail_fast and not result.passed:"
TACheckEarlyTermination ==
  /\ ta_result # Null
  /\ ta_stops = Null
  /\ ta_stops' = Some(StopsEarly(ta_fail_fast, ta_result[1]))
  /\ UNCHANGED <<notTA, ta_tier, ta_rule_found, ta_evidence, ta_fail_fast, ta_result>>

TANext ==
  \/ TAVerifyTier
  \/ TACheckEarlyTermination

(***************************************************************************)
(* The ML paths of NLIChecker._classify_entailment (verification/nli.py)   *)
(* and EmbeddingChecker._compute_similarity (verification/embeddings.py),  *)
(* with their fallback to the heuristics.  An ML similarity score is in    *)
(* hundredths.                                                             *)
(***************************************************************************)
\* the cosine similarities model.encode may lead to
EncodedScores == {30, 60, 90}

\* a faulty _classify_ml whose handler lets the exception through
ClassifyMLOrRaise(premise, hypothesis, pipeline, inference) ==
  IF pipeline = Null THEN ClassifyHeuristic(premise, hypothesis)
  ELSE IF inference = Null THEN [raised |-> "Exception"]
  ELSE ClassifyML(inference[1])

\* _classify_ml: no pipeline, or an exception in the try block, gives
\* _classify_heuristic(premise, hypothesis)
ClassifyMLOrFallBack(premise, hypothesis, pipeline, inference) ==
  IF pipeline = Null THEN ClassifyHeuristic(premise, hypothesis)
  ELSE IF inference = Null THEN ClassifyHeuristic(premise, hypothesis)
  ELSE ClassifyML(inference[1])

\* _classify_entailment
ClassifyEntailment(use_ml, premise, hypothesis, pipeline, inference) ==
  IF use_ml THEN ClassifyMLOrFallBack(premise, hypothesis, pipeline, inference)
  ELSE ClassifyHeuristic(premise, hypothesis)

\* _compute_ml_similarity: no model, or an exception in the try block, gives
\* _compute_heuristic_similarity(text1, text2)
ComputeMLSimilarity(text1, text2, model, inference) ==
  IF model = Null THEN ComputeHeuristicSimilarity(text1, text2)
  ELSE IF inference = Null THEN ComputeHeuristicSimilarity(text1, text2)
  ELSE LET score == inference[1]
       IN [label |-> IF score >= 75 THEN "high"
                     ELSE IF score >= 50 THEN "medium" ELSE "low",
           score |-> score]

\* _compute_similarity
ComputeSimilarity(use_ml, text1, text2, model, inference) ==
  IF use_ml THEN ComputeMLSimilarity(text1, text2, model, inference)
  ELSE ComputeHeuristicSimilarity(text1, text2)

\* neither dispatcher is in use
FBIdle ==
  /\ fb_checker = "none"
  /\ fb_use_ml = FALSE
  /\ fb_text1 = <<>>
  /\ fb_text2 = <<>>
  /\ fb_model = Null
  /\ fb_inference = Null
  /\ fb_result = Null

\* a checker constructed with use_ml, its singleton loaded or not, about to
\* be called on two texts
FBInit ==
  /\ fb_checker \in {"nli", "embedding"}
  /\ fb_use_ml \in BOOLEAN
  /\ fb_text1 \in IF fb_checker = "nli" THEN Texts ELSE SimilarityTexts
  /\ fb_text2 \in IF fb_checker = "nli" THEN Texts ELSE SimilarityTexts
  /\ fb_model \in {Null, Some("loaded")}
  /\ fb_inference = Null
  /\ fb_result = Null

notFB ==
  <<workflow_type, rvVars, ccVars, cfVars, ddVars, xrVars, nliVars, simVars, mlVars,
    taVars, rdVars>>

\* self._classify_entailment(premise, hypothesis); the pipeline call, if it
\* is reached, returns scores or raises
FBClassifyEntailment ==
  /\ fb_checker = "nli"
  /\ fb_result = Null
  /\ \E inference \in {Null} \cup {Some(s) : s \in PipelineScores} :
       /\ fb_inference' = inference
       /\ fb_result' = Some(ClassifyEntailment(fb_use_ml, fb_text1, fb_text2,
                                                fb_model, inference))
  /\ UNCHANGED <<notFB, fb_checker, fb_use_ml, fb_text1, fb_text2, fb_model>>

\* self._compute_similarity(text1, text2); model.encode and the cosine, if
\* they are reached, give a score or raise
FBComputeSimilarity ==
  /\ fb_checker = "embedding"
  /\ fb_result = Null
  /\ \E inference \in {Null} \cup {Some(s) : s \in EncodedScores} :
       /\ fb_inference' = inference
       /\ fb_result' = Some(ComputeSimilarity(fb_use_ml, fb_text1, fb_text2,
                                               fb_model, inference))
  /\ UNCHANGED <<notFB, fb_checker, fb_use_ml, fb_text1, fb_text2, fb_model>>

FBNext ==
  \/ FBClassifyEntailment
  \/ FBComputeSimilarity

(***************************************************************************)
(* check_rule_drift_activity (workflows/activities.py), as a function of   *)
(* whether the rule is in the store and of the Tier-0 evidence the         *)
(* consistency engine returns for it.                                      *)
(***************************************************************************)
\* the evidence Tier 0 may return: a label and a category
DriftEvidenceItems ==
  [label : {"pass", "warning", "fail"},
   category : {"schema_valid", "source_exists", "date_consistency"}]

DriftEvidenceLists == UNION {[1..n -> DriftEvidenceItems] : n \in 0..MaxEvidence}

\* a faulty loop that takes a warning of any category for a reference issue
RECURSIVE DriftTypesAnyWarning(_)
DriftTypesAnyWarning(evidence) ==
  IF evidence = <<>> THEN <<>>
  ELSE (IF evidence[1].label = "fail" THEN <<"schema_drift">>
        ELSE IF evidence[1].label = "warning" THEN <<"reference_drift">>
        ELSE <<>>) \o DriftTypesAnyWarning(Tail(evidence))

\* "for evidence in result.evidence:" appending to drift_types
RECURSIVE DriftTypes(_)
DriftTypes(evidence) ==
  IF evidence = <<>> THEN <<>>
  ELSE (IF evidence[1].label = "fail" THEN <<"schema_drift">>
        ELSE IF evidence[1].label = "warning"
                /\ evidence[1].category = "source_exists"
             THEN <<"reference_drift">>
        ELSE <<>>) \o DriftTypes(Tail(evidence))

\* "# Determine severity"
DriftSeverity(drift_types) ==
  IF "schema_drift" \in Range(drift_types) THEN "high"
  ELSE IF "reference_drift" \in Range(drift_types) THEN "medium"
  ELSE IF drift_types # <<>> THEN "low"
  ELSE "none"

\* the RuleDriftResult, without its details and its times
RuleDriftResult(has_drift, drift_types, severity) ==
  [has_drift |-> has_drift, drift_types |-> drift_types, severity |-> severity]

\* check_rule_drift_activity
CheckRuleDriftActivity(rule_found, evidence) ==
  IF ~rule_found THEN RuleDriftResult(TRUE, <<"rule_missing">>, "critical")
  ELSE LET drift_types == DriftTypes(evidence)
       IN RuleDriftResult(Len(drift_types) > 0, drift_types,
                          DriftSeverity(drift_types))

\* no drift check in hand
RDIdle ==
  /\ rd_rule_found = FALSE
  /\ rd_evidence = <<>>
  /\ rd_result = Null

\* a rule id in the store or not, and the evidence Tier 0 has for the rule
RDInit ==
  /\ rd_rule_found \in BOOLEAN
  /\ rd_evidence \in DriftEvidenceLists
  /\ rd_result = Null

\* check_rule_drift_activity runs and returns
RDCheckRuleDrift ==
  /\ rd_result = Null
  /\ rd_result' = Some(CheckRuleDriftActivity(rd_rule_found, rd_evidence))
  /\ UNCHANGED <<workflow_type, rvVars, ccVars, cfVars, ddVars, xrVars, nliVars,
                 simVars, mlVars, taVars, fbVars, rd_rule_found, rd_evidence>>

RDNext == RDCheckRuleDrift

\* the checkers other than CrossRuleChecker are not in use
CheckersIdle == NLIIdle /\ SIMIdle /\ MLIdle /\ TAIdle /\ FBIdle /\ RDIdle

InitRV ==
  /\ workflow_type = "RuleVerificationWorkflow"
  /\ RVInit /\ CCIdle /\ CFIdle /\ DDIdle /\ XRIdle /\ CheckersIdle

SpecRV == InitRV /\ [][RVNext]_vars

InitCC ==
  /\ workflow_type = "ComplianceCheckWorkflow"
  /\ RVIdle /\ CCInit /\ CFIdle /\ DDIdle /\ XRIdle /\ CheckersIdle

SpecCC == InitCC /\ [][CCNext]_vars

InitCF ==
  /\ workflow_type = "CounterfactualAnalysisWorkflow"
  /\ RVIdle /\ CCIdle /\ CFInit /\ DDIdle /\ XRIdle /\ CheckersIdle

SpecCF == InitCF /\ [][CFNext]_vars

InitDD ==
  /\ workflow_type = "DriftDetectionWorkflow"
  /\ RVIdle /\ CCIdle /\ CFIdle /\ DDInit /\ XRIdle /\ CheckersIdle

SpecDD == InitDD /\ [][DDNext]_vars

\* a CrossRuleChecker called outside any workflow run
InitXR ==
  /\ workflow_type = "none"
  /\ RVIdle /\ CCIdle /\ CFIdle /\ DDIdle /\ XRInit /\ CheckersIdle

SpecXR == InitXR /\ [][XRNext]_vars

\* an NLIChecker called outside any workflow run
InitNLI ==
  /\ workflow_type = "none"
  /\ RVIdle /\ CCIdle /\ CFIdle /\ DDIdle /\ XRIdle /\ NLIInit /\ SIMIdle /\ MLIdle
  /\ TAIdle /\ FBIdle /\ RDIdle

SpecNLI == InitNLI /\ [][NLINext]_vars

\* an EmbeddingChecker called outside any workflow run
InitSIM ==
  /\ workflow_type = "none"
  /\ RVIdle /\ CCIdle /\ CFIdle /\ DDIdle /\ XRIdle /\ NLIIdle /\ SIMInit /\ MLIdle
  /\ TAIdle /\ FBIdle /\ RDIdle

SpecSIM == InitSIM /\ [][SIMNext]_vars

\* callers of the model getter outside any workflow run
InitML ==
  /\ workflow_type = "none"
  /\ RVIdle /\ CCIdle /\ CFIdle /\ DDIdle /\ XRIdle /\ NLIIdle /\ SIMIdle /\ MLInit
  /\ TAIdle /\ FBIdle /\ RDIdle

SpecML == InitML /\ [][MLNext]_vars

\* one tier activity called, and its result tested by the workflow
InitTA ==
  /\ workflow_type = "none"
  /\ RVIdle /\ CCIdle /\ CFIdle /\ DDIdle /\ XRIdle /\ NLIIdle /\ SIMIdle /\ MLIdle
  /\ TAInit /\ FBIdle /\ RDIdle

SpecTA == InitTA /\ [][TANext]_vars

\* one call of _classify_entailment or _compute_similarity
InitFB ==
  /\ workflow_type = "none"
  /\ RVIdle /\ CCIdle /\ CFIdle /\ DDIdle /\ XRIdle /\ NLIIdle /\ SIMIdle /\ MLIdle
  /\ TAIdle /\ FBInit /\ RDIdle

SpecFB == InitFB /\ [][FBNext]_vars

\* one call of check_rule_drift_activity
InitRD ==
  /\ workflow_type = "none"
  /\ RVIdle /\ CCIdle /\ CFIdle /\ DDIdle /\ XRIdle /\ NLIIdle /\ SIMIdle /\ MLIdle
  /\ TAIdle /\ FBIdle /\ RDInit

SpecRD == InitRD /\ [][RDNext]_vars

Init == InitRV \/ InitCC \/ InitCF \/ InitDD

Next == RVNext \/ CCNext \/ CFNext \/ DDNext

Spec == Init /\ [][Next]_vars

\* the steps that do not wait for a client: the workflow body resuming, and a
\* dispatched activity attempt returning, failing or timing out
RVProgress ==
  \/ RVStart
  \/ LoadRuleReturns
  \/ LoadRuleNotFound
  \/ \E o \in TierOutcomes : TierReturns(o)
  \/ \E r \in TransientFailures : RVAttemptFails(r)
  \/ RVAfterLoad
  \/ RVAfterTier
  \/ RVFailed

Progress == RVProgress \/ CCNext \/ CFNext \/ DDNext

\* the four workflows on a server that keeps scheduling: a started attempt
\* ends within its start_to_close timeout, and a workflow task that can run
\* does run; signals come or not as the clients please
FairSpec == Spec /\ WF_vars(Progress)

(***************************************************************************)
(* Properties of RuleVerificationWorkflow: skipped tiers and fail_fast.    *)
(***************************************************************************)
\* the tiers of input.skip_tiers and those signalled before their dispatch
C1_Skipped == rv_input.skip_tiers \cup rv_timely_skips

\* the results the tier activities returned for tiers other than n
C1_Others(n) == SelectSeq(rv_returned, LAMBDA r : r.tier # n)

\* C1: a tier N that input.skip_tiers lists, or that a skip_tier signal names
\* before N is dispatched, is never dispatched, has no entry in tier_results
\* (neither in the workflow's list nor in the returned output), and the
\* overall score and pass flag of a completed run are the mean and the
\* conjunction over the results of the other tiers only.
C1_SkippedTierOmitted ==
  \A n \in C1_Skipped :
    /\ n \notin DispatchedTiers
    /\ \A i \in 1..Len(rv_tier_results) : rv_tier_results[i].tier # n
    /\ rv_output # Null =>
         LET out == rv_output[1]
             others == C1_Others(n)
         IN /\ \A i \in 1..Len(out.tier_results) : out.tier_results[i].tier # n
            /\ out.status = "completed" =>
                 /\ out.overall_score.num * Len(others)
                      = SumScores(others) * out.overall_score.den
                 /\ others = <<>> => out.overall_score.num = 0
                 /\ out.overall_passed
                      = (\A i \in 1..Len(others) : others[i].passed)

\* a completed run that executed a tier below and a tier above a tier that
\* was within max_tier, not listed in the input, and signalled in time
C1_Witness ==
  /\ rv_output # Null
  /\ rv_output[1].status = "completed"
  /\ \E n \in rv_timely_skips \ rv_input.skip_tiers :
       /\ n <= rv_input.max_tier
       /\ \E i, j \in 1..Len(rv_output[1].tier_results) :
            /\ rv_output[1].tier_results[i].tier < n
            /\ rv_output[1].tier_results[j].tier > n

\* C2: with fail_fast, when a tier activity returns passed = false for tier
\* k, no activity is dispatched after tier k's, no further result is
\* returned, and the run's output is completed with k's result as the last
\* element of tier_results, stopped_early true and a stop_reason naming k;
\* when k is tier 0 the output holds exactly that one result.
C2_FailFastStops ==
  rv_input.fail_fast =>
    \A i \in 1..Len(rv_returned) :
      ~rv_returned[i].passed =>
        LET k == rv_returned[i].tier
        IN /\ i = Len(rv_returned)
           /\ rv_dispatched[Len(rv_dispatched)] = <<"verify_tier_activity", k>>
           /\ rv_pc \in {"tier", "done"}
           /\ rv_pc = "done" =>
                LET out == rv_output[1]
                    last == Len(out.tier_results)
                IN /\ out.status = "completed"
                   /\ last >= 1
                   /\ out.tier_results = rv_returned
                   /\ out.tier_results[last].tier = k
                   /\ ~out.tier_results[last].passed
                   /\ out.stopped_early
                   /\ out.stop_reason = Some(<<"Tier", k, "failed">>)
                   /\ k = 0 => last = 1

\* a run stopped early at a failing tier after an earlier tier had passed,
\* with tiers up to max_tier still to come
C2_Witness ==
  /\ rv_input.fail_fast
  /\ rv_output # Null
  /\ rv_output[1].stopped_early
  /\ rv_output[1].status = "completed"
  /\ LET rs == rv_output[1].tier_results
     IN /\ Len(rs) >= 2
        /\ rs[1].passed
        /\ ~rs[Len(rs)].passed
        /\ rs[Len(rs)].tier < rv_input.max_tier
        /\ rv_tiers_remaining # <<>>

(***************************************************************************)
(* Properties of DriftDetectionWorkflow and ComplianceCheckWorkflow:       *)
(* fan-out, fan-in and what a failure inside a fan-out does.               *)
(***************************************************************************)
\* the rules whose drift check failed on every attempt
C3_FailedChecks == {r \in RuleIds : dd_checks[r].state = "failed"}

\* C3: a drift check that fails on every attempt is isolated: it does not
\* fail the run, which ends completed with rules_checked equal to the
\* number of rules it was given.  The code gathers the checks of a batch
\* without isolating them, so this does not hold.
C3_FailedCheckIsolated ==
  (dd_pc = "done" /\ C3_FailedChecks # {}) =>
    /\ dd_output[1].status = "completed"
    /\ dd_output[1].rules_checked = Len(dd_rule_ids)

\* C4: when equivalences are requested, the equivalence lookup is in
\* flight together with the jurisdiction evaluations: it has been
\* dispatched by the time the run awaits the gather of the evaluations.
\* The code only creates the coroutine there and starts it after the gather.
C4_EquivalencesConcurrent ==
  (cc_input.include_equivalences /\ cc_pc = "gather") =>
    get_equivalences_activity \in CCAllDispatched

\* the evaluation calls, whatever their state
C5_Evaluations == {c \in DOMAIN cc_calls : Len(c) = 2}

\* the later activities that have been dispatched
C5_LaterDispatched ==
  CCAllDispatched \cap {<<"detect_conflicts_activity">>,
                        <<"synthesize_pathway_activity">>,
                        <<"aggregate_obligations_activity">>}

\* C5: the jurisdiction evaluations are dispatched together, one per
\* resolved jurisdiction; conflict detection, pathway synthesis and
\* obligation aggregation are dispatched only when every evaluation has
\* returned; and when an evaluation fails for good the run ends failed
\* without any of these later activities having been dispatched.
C5_EvaluationsJoined ==
  /\ \A i \in 1..Len(cc_dispatched) :
       cc_dispatched[i] \cap C5_Evaluations # {} =>
         /\ cc_dispatched[i] =
              {<<"evaluate_jurisdiction_activity", j>> :
                 j \in 1..cc_total_jurisdictions}
         /\ \A k \in 1..Len(cc_dispatched) :
              k # i => cc_dispatched[k] \cap C5_Evaluations = {}
  /\ C5_LaterDispatched # {} =>
       /\ \A c \in C5_Evaluations : cc_calls[c].state # "inflight"
       /\ Len(cc_jurisdiction_results) = cc_total_jurisdictions
       /\ cc_completed_jurisdictions = cc_total_jurisdictions
  /\ (\E c \in C5_Evaluations : cc_calls[c].state = "inflight") =>
       C5_LaterDispatched = {}
  /\ (\E c \in C5_Evaluations : cc_calls[c].state = "failed") =>
       /\ C5_LaterDispatched = {}
       /\ cc_pc \in {"gather", "done"}
       /\ cc_pc = "done" =>
            /\ cc_status = "failed"
            /\ cc_output[1].status = "failed"
            /\ cc_output[1].error # Null

\* two evaluations fanned out, one returned and one still in flight
C5_Witness ==
  /\ cc_pc = "gather"
  /\ cc_total_jurisdictions >= 2
  /\ \E c, d \in C5_Evaluations :
       cc_calls[c].state = "ok" /\ cc_calls[d].state = "inflight"

\* the k-th batch of at most 10 rules of the run's rule list
C6_Chunk(k) ==
  LET n == Len(dd_rule_ids)
      first == 10 * (k - 1)
      size == IF n - first < 10 THEN n - first ELSE 10
  IN [j \in 1..size |-> dd_rule_ids[first + j]]

\* C6: the n rules are checked in ceil(n/10) batches that follow the order
\* of the rule list, every batch but the last holding exactly 10 rules; a
\* batch is dispatched only when every check of the batch before it has
\* returned, so at most 10 checks are in flight; a completed run reports
\* rules_checked = n.
C6_BatchedFanOut ==
  LET n == Len(dd_rule_ids)
      batches == Len(dd_dispatched)
  IN /\ batches <= (n + 9) \div 10
     /\ \A k \in 1..batches :
          /\ dd_dispatched[k] = C6_Chunk(k)
          /\ Len(dd_dispatched[k]) >= 1
          /\ k < (n + 9) \div 10 => Len(dd_dispatched[k]) = 10
     /\ Cardinality(DDInFlight) <= 10
     /\ batches >= 1 =>
          /\ DDInFlight \subseteq Range(dd_dispatched[batches])
          /\ Len(dd_drift_results) >= 10 * (batches - 1)
     /\ (dd_pc = "done" /\ dd_status = "completed") =>
          /\ batches = (n + 9) \div 10
          /\ dd_output[1].rules_checked = n
          /\ \A j \in 1..n : dd_output[1].drift_results[j].rule_id = dd_rule_ids[j]

\* a completed run over 25 rules: batches of 10, 10 and 5
C6_Witness ==
  /\ dd_pc = "done"
  /\ dd_status = "completed"
  /\ Len(dd_rule_ids) = 25
  /\ Len(dd_dispatched) = 3
  /\ Len(dd_dispatched[1]) = 10
  /\ Len(dd_dispatched[2]) = 10
  /\ Len(dd_dispatched[3]) = 5
  /\ dd_output[1].rules_checked = 25

(***************************************************************************)
(* Properties of all four workflows: retries, failures and the status.     *)
(***************************************************************************)
\* every activity call of the four workflows
C7_Calls ==
  {rv_call, dd_call}
    \cup {cc_calls[c] : c \in DOMAIN cc_calls}
    \cup {cf_calls[c] : c \in DOMAIN cf_calls}
    \cup {dd_checks[r] : r \in DOMAIN dd_checks}

\* a call the workflow made has failed on its last attempt
C7_RVCallFailed == rv_call.state = "failed"
C7_CCCallFailed == \E c \in DOMAIN cc_calls : cc_calls[c].state = "failed"
C7_CFCallFailed == \E c \in DOMAIN cf_calls : cf_calls[c].state = "failed"
C7_DDCallFailed ==
  \/ dd_call.state = "failed"
  \/ \E r \in DOMAIN dd_checks : dd_checks[r].state = "failed"

C7_Attempts ==
  /\ \A c \in C7_Calls :
       /\ c.attempt <= 3
       /\ c.state = "failed" => (c.attempt = 3 /\ c.msg # Null)
  /\ rv_status = "completed" => (~C7_RVCallFailed /\ rv_output[1].error = Null)
  /\ cc_status = "completed" => (~C7_CCCallFailed /\ cc_output[1].error = Null)
  /\ cf_status = "completed" => (~C7_CFCallFailed /\ cf_output[1].error = Null)
  /\ dd_status = "completed" => (~C7_DDCallFailed /\ dd_output[1].error = Null)
  /\ rv_status = "failed" =>
       (C7_RVCallFailed /\ rv_error # Null /\ rv_output[1].error # Null)
  /\ cc_status = "failed" =>
       (C7_CCCallFailed /\ cc_error # Null /\ cc_output[1].error # Null)
  /\ cf_status = "failed" =>
       (C7_CFCallFailed /\ cf_error # Null /\ cf_output[1].error # Null)
  /\ dd_status = "failed" =>
       (C7_DDCallFailed /\ dd_error # Null /\ dd_output[1].error # Null)

\* after a call has failed for good the workflow dispatches nothing more
\* and its next step ends the run as failed
C7_NoStepPastFailure ==
  /\ C7_RVCallFailed =>
       /\ rv_dispatched' = rv_dispatched
       /\ rv_tier_results' = rv_tier_results
       /\ rv_pc' # rv_pc =>
            (rv_pc' = "done" /\ rv_status' = "failed" /\ rv_error' # Null)
  /\ C7_CCCallFailed =>
       /\ cc_dispatched' = cc_dispatched
       /\ cc_pc' # cc_pc =>
            (cc_pc' = "done" /\ cc_status' = "failed" /\ cc_error' # Null)
  /\ C7_CFCallFailed =>
       /\ cf_dispatched' = cf_dispatched
       /\ cf_pc' # cf_pc =>
            (cf_pc' = "done" /\ cf_status' = "failed" /\ cf_error' # Null)
  /\ C7_DDCallFailed =>
       /\ dd_dispatched' = dd_dispatched
       /\ dd_drift_results' = dd_drift_results
       /\ dd_pc' # dd_pc =>
            (dd_pc' = "done" /\ dd_status' = "failed" /\ dd_error' # Null)

\* C7: every activity call of the four workflows is attempted at most 3
\* times, a timeout counting as a failed attempt; a run that completes has
\* no failed call; a run fails only when a call has failed 3 times, and
\* then it ends failed with a non-null error without dispatching anything
\* after the failed call.
C7_RetryThenFail == []C7_Attempts /\ [][C7_NoStepPastFailure]_vars

\* a counterfactual run that failed because a call timed out three times
C7_Witness ==
  /\ cf_status = "failed"
  /\ cf_error = Some("timeout")
  /\ \E c \in DOMAIN cf_calls :
       /\ cf_calls[c].state = "failed"
       /\ cf_calls[c].attempt = 3

\* C8: when load_rule_activity fails because the rule does not exist, the
\* activity is attempted once only and the run ends failed with the
\* rule-not-found message.  The retry policy lists no non-retryable error,
\* so the activity is attempted again.
C8_NotFoundNotRetried ==
  ~rule_exists =>
    /\ rv_call.attempt <= 1
    /\ rv_pc = "done" =>
         (rv_status = "failed" /\ rv_error = Some("Rule not found"))

\* the tiers whose activities were dispatched, in order
C9_TiersDispatched ==
  LET tiers == SelectSeq(rv_dispatched, LAMBDA a : Len(a) = 2)
  IN [i \in 1..Len(tiers) |-> tiers[i][2]]

\* the rules of the batches that were gathered before the failure
C9_RulesChecked ==
  LET whole == IF \E r \in DOMAIN dd_checks : dd_checks[r].state = "failed"
               THEN Len(dd_dispatched) - 1
               ELSE Len(dd_dispatched)
      m == IF 10 * whole < Len(dd_rule_ids) THEN 10 * whole
           ELSE Len(dd_rule_ids)
  IN SubSeq(dd_rule_ids, 1, m)

\* C9: a failed run keeps what it had accumulated.  A failed rule
\* verification returns status failed, the failure message as error and, as
\* tier_results, exactly the results of the tiers that completed before the
\* failing call, in order; a failed drift detection returns status failed
\* and the drift_results, rules_checked and rules_with_drift of every batch
\* that completed before the failure.
C9_PartialResultsKept ==
  /\ (rv_pc = "done" /\ rv_status = "failed") =>
       LET out == rv_output[1]
           done == IF Len(rv_call_name[1]) = 2
                   THEN SubSeq(C9_TiersDispatched, 1, Len(C9_TiersDispatched) - 1)
                   ELSE C9_TiersDispatched
       IN /\ out.status = "failed"
          /\ out.error = rv_call.msg
          /\ out.error # Null
          /\ out.tier_results = rv_returned
          /\ [i \in 1..Len(out.tier_results) |-> out.tier_results[i].tier] = done
  /\ (dd_pc = "done" /\ dd_status = "failed") =>
       LET out == dd_output[1]
           rules == C9_RulesChecked
       IN /\ out.status = "failed"
          /\ out.error # Null
          /\ out.drift_results =
               [j \in 1..Len(rules) |->
                  [rule_id |-> rules[j], has_drift |-> rules[j] \in DriftingRules]]
          /\ out.rules_checked = Len(rules)
          /\ out.rules_with_drift =
               Cardinality({j \in 1..Len(rules) : rules[j] \in DriftingRules})

\* a rule verification that failed at a tier after two tiers had completed
C9_Witness ==
  /\ rv_pc = "done"
  /\ rv_status = "failed"
  /\ Len(rv_call_name[1]) = 2
  /\ Len(rv_output[1].tier_results) = 2
  /\ rv_output[1].error = Some("unavailable")

C10_Terminal == {"completed", "failed", "cancelled", "timed_out"}

\* the status agrees with the position of run
C10_StatusOf(pc, status) ==
  /\ pc = "init" <=> status = "pending"
  /\ pc = "done" <=> status \in C10_Terminal
  /\ pc \notin {"init", "done"} <=> status = "running"

C10_StatusInv ==
  /\ C10_StatusOf(rv_pc, rv_status)
  /\ C10_StatusOf(cc_pc, cc_status)
  /\ C10_StatusOf(cf_pc, cf_status)
  /\ C10_StatusOf(dd_pc, dd_status)

\* the only changes of a status
C10_Advance(old, new) ==
  \/ new = old
  \/ old = "pending" /\ new = "running"
  \/ old = "running" /\ new \in C10_Terminal

C10_StatusStep ==
  /\ C10_Advance(rv_status, rv_status')
  /\ C10_Advance(cc_status, cc_status')
  /\ C10_Advance(cf_status, cf_status')
  /\ C10_Advance(dd_status, dd_status')

\* C10: in each of the four workflows the status is pending until run
\* starts, running from then until run returns, and terminal afterwards;
\* it changes only from pending to running and from running to one
\* terminal value, so it never goes back and never changes once terminal.
C10_StatusMonotonic == []C10_StatusInv /\ [][C10_StatusStep]_vars

\* a drift detection that has gone from pending through running to failed
C10_Witness ==
  /\ dd_pc = "done"
  /\ dd_status = "failed"
  /\ dd_dispatched # <<>>

(***************************************************************************)
(* Properties of RuleVerificationWorkflow: the saga and its final result.  *)
(***************************************************************************)
\* the tiers whose activities were dispatched, in the order of dispatch
C11_TierSequence ==
  LET tiers == SelectSeq(rv_dispatched, LAMBDA a : Len(a) = 2)
  IN [i \in 1..Len(tiers) |-> tiers[i][2]]

\* C11: the tiers run as a sequential saga: a tier activity is dispatched
\* only after load_rule_activity has returned a rule, the next tier only
\* after the tier before it has returned (so at most one tier activity is in
\* flight), tiers are dispatched in strictly increasing tier index and never
\* above input.max_tier, and tier_results is strictly ascending by tier.
C11_SequentialSaga ==
  LET tiers == C11_TierSequence
  IN /\ tiers # <<>> =>
          /\ rv_dispatched[1] = <<"load_rule_activity">>
          /\ rule_exists
          /\ rv_pc \in {"tier", "done"}
     /\ rv_pc \in {"init", "load"} => tiers = <<>>
     /\ Len(tiers) <= Len(rv_returned) + 1
     /\ Len(tiers) = Len(rv_returned) + 1 =>
          (rv_call.state # "ok" /\ rv_call_name = Some(<<"verify_tier_activity",
                                                          tiers[Len(tiers)]>>))
     /\ \A i \in 1..Len(tiers) : tiers[i] \in 0..rv_input.max_tier
     /\ \A i, j \in 1..Len(tiers) : i < j => tiers[i] < tiers[j]
     /\ \A i \in 1..Len(rv_returned) : rv_returned[i].tier = tiers[i]
     /\ \A i, j \in 1..Len(rv_tier_results) :
          i < j => rv_tier_results[i].tier < rv_tier_results[j].tier
     /\ rv_output # Null =>
          \A i, j \in 1..Len(rv_output[1].tier_results) :
            i < j => rv_output[1].tier_results[i].tier
                       < rv_output[1].tier_results[j].tier

\* a run limited to tier 2 that has executed tiers 0, 1 and 2 and completed
C11_Witness ==
  /\ rv_pc = "done"
  /\ rv_status = "completed"
  /\ rv_input.max_tier = 2
  /\ C11_TierSequence = <<0, 1, 2>>
  /\ Len(rv_output[1].tier_results) = 3

\* the results the tier activities returned to the run
C12_Executed == rv_returned

\* the tiers among the executed ones whose result passed
C12_PassedTiers ==
  {C12_Executed[i].tier : i \in {j \in 1..Len(C12_Executed) : C12_Executed[j].passed}}

\* C12: on a completed run overall_score is the arithmetic mean of the
\* scores of the executed tiers, overall_passed is the conjunction of their
\* passed flags, and highest_tier_passed is the greatest tier index among
\* the executed tiers that passed, null when none passed.
C12_FinalResult ==
  (rv_pc = "done" /\ rv_status = "completed") =>
    LET out == rv_output[1]
        n == Len(C12_Executed)
    IN /\ out.tier_results = C12_Executed
       /\ n > 0 =>
            out.overall_score.num * n = SumScores(C12_Executed) * out.overall_score.den
       /\ out.overall_score.den > 0
       /\ out.overall_passed = (\A i \in 1..n : C12_Executed[i].passed)
       /\ C12_PassedTiers = {} => out.highest_tier_passed = Null
       /\ C12_PassedTiers # {} =>
            /\ out.highest_tier_passed # Null
            /\ out.highest_tier_passed[1] \in C12_PassedTiers
            /\ \A t \in C12_PassedTiers : t <= out.highest_tier_passed[1]

\* a completed run without fail_fast in which two tiers passed, one failed,
\* and the failed one is the last
C12_Witness ==
  /\ rv_pc = "done"
  /\ rv_status = "completed"
  /\ ~rv_input.fail_fast
  /\ Len(rv_output[1].tier_results) = 3
  /\ rv_output[1].tier_results[1].passed
  /\ rv_output[1].tier_results[2].passed
  /\ ~rv_output[1].tier_results[3].passed
  /\ rv_output[1].highest_tier_passed = Some(rv_output[1].tier_results[2].tier)
  /\ rv_output[1].overall_score = [num |-> 22, den |-> 3]

(***************************************************************************)
(* Properties of ComplianceCheckWorkflow: phases and overall status.       *)
(***************************************************************************)
\* the phase the progress query is to show while an activity is in flight
C13_PhaseOf(c) ==
  CASE c = <<"resolve_jurisdictions_activity">> -> "resolving"
    [] c = <<"detect_conflicts_activity">> -> "detecting_conflicts"
    [] c = <<"synthesize_pathway_activity">> -> "synthesizing"
    [] c = <<"aggregate_obligations_activity">> -> "aggregating"
    [] OTHER -> "evaluating"

\* the phases before the aggregation are shown while their activities run
C13_EarlierPhasesShown ==
  \A c \in DOMAIN cc_calls :
    (cc_calls[c].state = "inflight" /\ cc_pc # "done"
       /\ c # <<"aggregate_obligations_activity">>)
      => cc_current_phase = C13_PhaseOf(c)

\* C13: while an activity of a phase is in flight, the progress query shows
\* current_phase as that phase: resolving, evaluating, detecting_conflicts,
\* synthesizing, aggregating in turn, and completed once the run has
\* completed.  The code never sets the phase to aggregating: the obligation
\* aggregation runs while the phase still reads synthesizing.
C13_PhasesInOrder ==
  /\ \A c \in DOMAIN cc_calls :
       (cc_calls[c].state = "inflight" /\ cc_pc # "done")
         => cc_current_phase = C13_PhaseOf(c)
  /\ cc_status = "completed" => cc_current_phase = "completed"

\* the statuses of the jurisdiction results of the output
C14_Statuses ==
  {cc_output[1].jurisdiction_results[i] :
     i \in 1..Len(cc_output[1].jurisdiction_results)}

\* C14: on a completed run overall_status is blocked if any jurisdiction is
\* blocked; otherwise requires_action if any jurisdiction is
\* requires_action; otherwise compliant when all are compliant; and
\* no_applicable_rules when there is no jurisdiction result.
C14_WorstCaseStatus ==
  (cc_pc = "done" /\ cc_status = "completed") =>
    LET overall == cc_output[1].overall_status
    IN /\ C14_Statuses = {} => overall = "no_applicable_rules"
       /\ "blocked" \in C14_Statuses => overall = "blocked"
       /\ ("blocked" \notin C14_Statuses /\ "requires_action" \in C14_Statuses)
            => overall = "requires_action"
       /\ C14_Statuses = {"compliant"} => overall = "compliant"

\* a completed run with one blocked and one requires_action jurisdiction
C14_Witness ==
  /\ cc_pc = "done"
  /\ cc_status = "completed"
  /\ C14_Statuses = {"blocked", "requires_action"}
  /\ cc_output[1].overall_status = "blocked"

(***************************************************************************)
(* Properties of CounterfactualAnalysisWorkflow.                           *)
(***************************************************************************)
C15_Scenarios ==
  {<<"analyze_counterfactual_activity", i>> : i \in 1..cf_input.n_scenarios}

C15_Deltas == {c \in DOMAIN cf_calls : c[1] = "compute_delta_activity"}

\* C15: the first activity dispatched is the baseline evaluation; the
\* scenario activities are dispatched only once it has returned, all of
\* them together, so that they are in flight concurrently; a delta activity
\* is dispatched only once every scenario activity has returned; and when
\* the baseline evaluation fails for good nothing else is ever dispatched.
C15_BaselineThenFanOut ==
  /\ cf_dispatched # <<>> => cf_dispatched[1] = {<<"evaluate_baseline_activity">>}
  /\ \A k \in 1..Len(cf_dispatched) :
       /\ cf_dispatched[k] \cap C15_Scenarios # {} =>
            /\ k = 2
            /\ cf_dispatched[k] = C15_Scenarios
            /\ cf_baseline_result # Null
            /\ cf_evaluated # Null
       /\ cf_dispatched[k] \cap C15_Deltas # {} =>
            /\ k = 3
            /\ Len(cf_scenario_results) = cf_input.n_scenarios
            /\ \A c \in C15_Scenarios : cf_calls[c].state # "inflight"
       /\ cf_dispatched[k] \subseteq
            {<<"evaluate_baseline_activity">>} \cup C15_Scenarios \cup C15_Deltas
  /\ cf_pc = "scenarios" =>
       \A c \in C15_Scenarios : cf_calls[c].state # "none"
  /\ cf_calls[<<"evaluate_baseline_activity">>].state = "failed" =>
       Len(cf_dispatched) = 1

\* both scenarios of a run in flight at once, the baseline being known
C15_Witness ==
  /\ cf_pc = "scenarios"
  /\ cf_input.n_scenarios = 2
  /\ cf_baseline_result # Null
  /\ \A c \in C15_Scenarios : cf_calls[c].state = "inflight"

\* the results of analyze_counterfactual_activity the run has received
C16_Results ==
  {cf_calls[c].result[1] : c \in {x \in C15_Scenarios : cf_calls[x].state = "ok"}}

\* C16: analyze_counterfactual_activity sets differs_from_baseline exactly
\* when the decision string it reports differs from the decision string
\* reported for the baseline, whatever the engine decides (null included);
\* a scenario whose modified_facts is empty gets differs_from_baseline
\* false and no key_differences.  The code compares the engine's raw
\* decision, which may be null, with the reported baseline string.
C16_DiffersIffDecisionDiffers ==
  \A r \in C16_Results :
    /\ r.differs_from_baseline = (r.decision # cf_baseline_result[1].decision)
    /\ ~cf_input.modified_facts[r.scenario_id] =>
         (~r.differs_from_baseline /\ r.key_differences = <<>>)

\* the property restricted to engine decisions that are not null
C16_DiffersWhenDecided ==
  \A r \in C16_Results :
    (r.decision # "unknown") =>
      /\ r.differs_from_baseline = (r.decision # cf_baseline_result[1].decision)
      /\ ~cf_input.modified_facts[r.scenario_id] =>
           (~r.differs_from_baseline /\ r.key_differences = <<>>)

(***************************************************************************)
(* Properties of CrossRuleChecker.                                         *)
(***************************************************************************)
\* the result strings of the leaves of a decision tree, as written
RECURSIVE C17_LeafResults(_)
C17_LeafResults(node) ==
  IF node.kind = "leaf" THEN {node.result}
  ELSE UNION {C17_LeafResults(b[1]) :
                b \in {node.true_branch, node.false_branch} \ {Null}}

\* the leaf outcomes of a rule, lowercased and trimmed
C17_Outcomes(rule) ==
  IF rule.decision_tree = Null THEN {}
  ELSE {Strip(Lower(r)) : r \in C17_LeafResults(rule.decision_tree[1])}

\* some outcome of p and some outcome of q form a pair of the table, in
\* either order
C17_Contradicting(p, q) ==
  \E a \in C17_Outcomes(p), b \in C17_Outcomes(q) :
    <<a, b>> \in CONTRADICTING_OUTCOMES \/ <<b, a>> \in CONTRADICTING_OUTCOMES

\* C17: for a primary rule P and a related rule Q with another rule_id, if a
\* leaf outcome of P and a leaf outcome of Q (lowercased and trimmed) form a
\* pair of the contradiction table in either order, check_contradiction
\* reports has_contradiction = true, an evidence label other than pass, and
\* Q among the contradicting rule ids.
C17_ContradictionReported ==
  xr_contradiction # Null =>
    \A q \in Range(xr_related_rules) :
      (q.rule_id # xr_rule[1].rule_id /\ C17_Contradicting(xr_rule[1], q)) =>
        /\ xr_contradiction[1].result # Null
        /\ xr_contradiction[1].result[1].has_contradiction
        /\ xr_contradiction[1].evidence.label # "pass"
        /\ q.rule_id \in Range(xr_contradiction[1].result[1].contradicting_rule_ids)

\* check_contradiction has reported a rule Q whose outcome pairs with one of P
\* only in the table's reverse order, P's leaf being spelt with capitals or
\* blanks
C17_Witness ==
  /\ xr_contradiction # Null
  /\ xr_contradiction[1].result # Null
  /\ \E q \in Range(xr_related_rules) :
       /\ q.rule_id # xr_rule[1].rule_id
       /\ q.rule_id \in Range(xr_contradiction[1].result[1].contradicting_rule_ids)
       /\ \A a \in C17_Outcomes(xr_rule[1]), b \in C17_Outcomes(q) :
            <<a, b>> \notin CONTRADICTING_OUTCOMES
       /\ \E r \in C17_LeafResults(xr_rule[1].decision_tree[1]), b \in C17_Outcomes(q) :
            /\ <<b, Strip(Lower(r))>> \in CONTRADICTING_OUTCOMES
            /\ r # Strip(Lower(r))

\* the related rules, other than the primary rule, with an outcome that
\* contradicts one of the primary rule's
C18_Contradicting ==
  {q \in Range(xr_related_rules) :
     q.rule_id # xr_rule[1].rule_id /\ C17_Contradicting(xr_rule[1], q)}

\* the fields the applies_if tree of a rule refers to
C18_Fields(rule) == ExtractConditionFields(rule.applies_if[1])

\* overlap as "either applies_if is null or the field sets share a field"
C18_ShareField(p, q) ==
  \/ p.applies_if = Null
  \/ q.applies_if = Null
  \/ C18_Fields(p) \cap C18_Fields(q) # {}

\* overlap as the checker decides it: also when an applies_if tree refers to
\* no field at all
C18_NotProvedDisjoint(p, q) ==
  \/ p.applies_if = Null
  \/ q.applies_if = Null
  \/ C18_Fields(p) = {}
  \/ C18_Fields(q) = {}
  \/ C18_Fields(p) \cap C18_Fields(q) # {}

\* the verdict of check_contradiction under a given notion of overlap
C18_Verdict(Overlap(_, _)) ==
  xr_contradiction # Null =>
    LET evidence == xr_contradiction[1].evidence
        overlapping == {q \in C18_Contradicting : Overlap(xr_rule[1], q)}
    IN /\ (evidence.label = "pass" /\ evidence.score = 10)
            <=> C18_Contradicting = {}
       /\ (evidence.label = "fail" /\ evidence.score = 2)
            <=> overlapping # {}
       /\ (evidence.label = "warning" /\ evidence.score = 7)
            <=> (C18_Contradicting # {} /\ overlapping = {})

\* C18 as stated: check_contradiction's verdict is pass/1.0 iff no
\* contradicting outcome pair exists, fail/0.2 iff some contradicting pair has
\* overlapping conditions, and warning/0.7 iff contradicting pairs exist but
\* none overlaps, where two rules' conditions overlap iff either applies_if is
\* null or the field sets of the two applies_if trees have a field in common.
C18_VerdictAsStated == C18_Verdict(C18_ShareField)

\* C18, amended: the same verdicts, where two rules' conditions overlap iff
\* either applies_if is null, or either applies_if tree refers to no field,
\* or the two field sets have a field in common.
C18_VerdictByOverlap == C18_Verdict(C18_NotProvedDisjoint)

\* check_contradiction failed a rule whose only contradicting related rules
\* have a non-null applies_if sharing no field with the primary rule's, one
\* side referring to no field
C18_Witness ==
  /\ xr_contradiction # Null
  /\ xr_contradiction[1].evidence.label = "fail"
  /\ C18_Contradicting # {}
  /\ \A q \in C18_Contradicting : ~C18_ShareField(xr_rule[1], q)

\* the sum of a sequence of numbers
RECURSIVE C19_Sum(_)
C19_Sum(ns) == IF ns = <<>> THEN 0 ELSE ns[1] + C19_Sum(Tail(ns))

\* the number of leaf conditions of a condition tree: a group counts what its
\* all and any members count, so a group with neither counts 0
RECURSIVE C19_LeafConditions(_)
C19_LeafConditions(condition) ==
  IF condition.kind = "spec" THEN 1
  ELSE C19_Sum([i \in 1..Len(condition.all) |->
                  C19_LeafConditions(condition.all[i])])
       + C19_Sum([i \in 1..Len(condition.any) |->
                    C19_LeafConditions(condition.any[i])])

\* the number of nodes of a decision tree, internal and leaf
RECURSIVE C19_TreeNodes(_)
C19_TreeNodes(branch) ==
  IF branch = Null THEN 0
  ELSE IF branch[1].kind = "leaf" THEN 1
  ELSE 1 + C19_TreeNodes(branch[1].true_branch)
         + C19_TreeNodes(branch[1].false_branch)

C19_Specificity(rule) ==
  (IF rule.applies_if = Null THEN 0 ELSE C19_LeafConditions(rule.applies_if[1]))
  + C19_TreeNodes(rule.decision_tree)

\* the positions of the related rules, other than the primary rule, that
\* contradict it and differ from it in specificity
C19_Violating ==
  {i \in 1..Len(xr_related_rules) :
     /\ xr_related_rules[i].rule_id # xr_rule[1].rule_id
     /\ C17_Contradicting(xr_rule[1], xr_related_rules[i])
     /\ C19_Specificity(xr_rule[1]) # C19_Specificity(xr_related_rules[i])}

\* the k-th of those positions
C19_Position(k) ==
  CHOOSE i \in C19_Violating : Cardinality({j \in C19_Violating : j <= i}) = k

\* C19: check_hierarchy records a violation for a related rule Q (rule_id
\* other than P's) iff P and Q have a contradicting outcome pair and their
\* specificity differs, naming the rule of higher score as more specific; the
\* evidence is pass/1.0 with no violation and warning/0.6 otherwise;
\* specificity is the number of leaf conditions of applies_if (a group with
\* neither all nor any counts 0) plus the number of decision-tree nodes.
C19_LexSpecialis ==
  xr_hierarchy # Null =>
    LET evidence == xr_hierarchy[1].evidence
        violations == IF xr_hierarchy[1].result = Null THEN <<>>
                      ELSE xr_hierarchy[1].result[1].violations
        p == xr_rule[1]
    IN /\ Len(violations) = Cardinality(C19_Violating)
       /\ \A k \in 1..Len(violations) :
            LET q == xr_related_rules[C19_Position(k)]
                more == IF C19_Specificity(p) > C19_Specificity(q) THEN p ELSE q
                less == IF C19_Specificity(p) > C19_Specificity(q) THEN q ELSE p
            IN /\ violations[k].more_specific_rule = more.rule_id
               /\ violations[k].less_specific_rule = less.rule_id
               /\ violations[k].more_specific_score = C19_Specificity(more)
               /\ violations[k].less_specific_score = C19_Specificity(less)
               /\ C19_Specificity(more) > C19_Specificity(less)
       /\ evidence.label = (IF violations = <<>> THEN "pass" ELSE "warning")
       /\ evidence.score = (IF violations = <<>> THEN 10 ELSE 6)

\* check_hierarchy recorded a violation naming a related rule as the more
\* specific one, and none for another related rule that contradicts the
\* primary rule with the same specificity
C19_Witness ==
  /\ xr_hierarchy # Null
  /\ xr_hierarchy[1].result # Null
  /\ xr_hierarchy[1].evidence.label = "warning"
  /\ \E v \in Range(xr_hierarchy[1].result[1].violations) :
       v.more_specific_rule # xr_rule[1].rule_id
  /\ \E i \in 1..Len(xr_related_rules) :
       /\ i \notin C19_Violating
       /\ xr_related_rules[i].rule_id # xr_rule[1].rule_id
       /\ C17_Contradicting(xr_rule[1], xr_related_rules[i])

\* a date as the number yyyymmdd, which orders dates as the calendar does
C20_Day(d) == d[1] * 10000 + d[2] * 100 + d[3]

\* the first and last day of a rule's validity, an absent effective_from
\* being 1900-01-01 and an absent effective_to 2999-12-31
C20_Start(rule) ==
  IF rule.effective_from = Null THEN C20_Day(<<1900, 1, 1>>)
  ELSE C20_Day(rule.effective_from[1])
C20_End(rule) ==
  IF rule.effective_to = Null THEN C20_Day(<<2999, 12, 31>>)
  ELSE C20_Day(rule.effective_to[1])

C20_MaxStart(p, q) ==
  IF C20_Start(p) >= C20_Start(q) THEN C20_Start(p) ELSE C20_Start(q)
C20_MinEnd(p, q) ==
  IF C20_End(p) <= C20_End(q) THEN C20_End(p) ELSE C20_End(q)

\* the positions of the related rules, other than the primary rule, that
\* contradict it and whose period meets its period
C20_Conflicting ==
  {i \in 1..Len(xr_related_rules) :
     /\ xr_related_rules[i].rule_id # xr_rule[1].rule_id
     /\ C17_Contradicting(xr_rule[1], xr_related_rules[i])
     /\ C20_MaxStart(xr_rule[1], xr_related_rules[i])
          <= C20_MinEnd(xr_rule[1], xr_related_rules[i])}

\* the k-th of those positions
C20_Position(k) ==
  CHOOSE i \in C20_Conflicting : Cardinality({j \in C20_Conflicting : j <= i}) = k

\* C20: for a primary rule and a related rule with contradicting outcomes,
\* check_temporal_consistency records a conflict iff max(start1, start2) <=
\* min(end1, end2), an absent effective_from being 1900-01-01 and an absent
\* effective_to 2999-12-31; overlap_start and overlap_end are that max and
\* min, so periods sharing one boundary day overlap; the evidence is
\* warning/0.5 if there is a conflict and pass/1.0 otherwise.
C20_TemporalConflicts ==
  xr_temporal # Null =>
    LET evidence == xr_temporal[1].evidence
        conflicts == IF xr_temporal[1].result = Null THEN <<>>
                     ELSE xr_temporal[1].result[1].overlapping_conflicts
        p == xr_rule[1]
    IN /\ Len(conflicts) = Cardinality(C20_Conflicting)
       /\ \A k \in 1..Len(conflicts) :
            LET q == xr_related_rules[C20_Position(k)]
            IN /\ conflicts[k].rule1_id = p.rule_id
               /\ conflicts[k].rule2_id = q.rule_id
               /\ conflicts[k].overlap_start # Null
               /\ conflicts[k].overlap_end # Null
               /\ C20_Day(conflicts[k].overlap_start[1]) = C20_MaxStart(p, q)
               /\ C20_Day(conflicts[k].overlap_end[1]) = C20_MinEnd(p, q)
       /\ evidence.label = (IF conflicts = <<>> THEN "pass" ELSE "warning")
       /\ evidence.score = (IF conflicts = <<>> THEN 10 ELSE 5)

\* a rule valid [2024-01-01, 2024-06-30] was checked against a contradicting
\* rule valid [2024-06-01, 2024-12-31], reported as overlapping on
\* [2024-06-01, 2024-06-30], and against a contradicting rule valid
\* [2024-07-01, 2024-12-31], not reported
C20_Witness ==
  /\ xr_temporal # Null
  /\ xr_temporal[1].result # Null
  /\ xr_rule[1].effective_from = Date(2024, 1, 1)
  /\ xr_rule[1].effective_to = Date(2024, 6, 30)
  /\ \E q \in Range(xr_related_rules) :
       /\ q.effective_from = Date(2024, 6, 1)
       /\ q.effective_to = Date(2024, 12, 31)
       /\ [rule1_id |-> xr_rule[1].rule_id, rule2_id |-> q.rule_id,
           overlap_start |-> Date(2024, 6, 1), overlap_end |-> Date(2024, 6, 30)]
            \in Range(xr_temporal[1].result[1].overlapping_conflicts)
  /\ \E q \in Range(xr_related_rules) :
       /\ q.effective_from = Date(2024, 7, 1)
       /\ q.effective_to = Date(2024, 12, 31)
       /\ q.rule_id # xr_rule[1].rule_id
       /\ C17_Contradicting(xr_rule[1], q)
       /\ \A c \in Range(xr_temporal[1].result[1].overlapping_conflicts) :
            c.rule2_id # q.rule_id

(***************************************************************************)
(* Properties of NLIChecker.                                               *)
(***************************************************************************)
\* the text contains a negation marker: one of the marker words as a word, or
\* a word ending in the contraction n't
C21_Negated(text) ==
  LET lower == Lower(text)
      contraction == <<"n", "'", "t">>
  IN \/ \E marker \in negation_patterns \ {contraction} : SearchWord(marker, lower)
     \/ \E i \in 1..(Len(lower) - 2) :
          /\ SubSeq(lower, i, i + 2) = contraction
          /\ WordBoundary(lower, i + 3)

\* C21: in heuristic mode, whenever exactly one of premise and hypothesis
\* contains a negation marker (not, no, never, without, prohibited,
\* forbidden, excluded, denied, n't), the classifier returns contradiction
\* with confidence 0.6, whatever the token overlap of the two texts.
C21_NegationXorContradicts ==
  ~nli_use_ml =>
    \A i \in 1..Len(nli_results) :
      (C21_Negated(nli_premise) # C21_Negated(nli_hypotheses[i])) =>
        /\ nli_results[i].label = "contradiction"
        /\ nli_results[i].confidence = Hundredths(60)

\* how many of the results carry the label
C22_Count(label) ==
  Cardinality({i \in 1..Len(nli_results) : nli_results[i].label = label})

\* the quotient q is the mean of the component over the results
C22_IsMean(q, component) ==
  q.sum * Len(nli_results)
    = q.count * C19_Sum([i \in 1..Len(nli_results) |-> nli_results[i][component]])

\* some result is a contradiction of confidence above 0.6
C22_Dominated ==
  \E r \in Range(nli_results) :
    r.label = "contradiction" /\ r.confidence > Hundredths(60)

\* C22: for a non-empty list of results, _aggregate_results returns
\* contradiction with the greatest contradiction confidence whenever some
\* result is a contradiction of confidence above 0.6, whatever the other
\* results are; otherwise the label is a majority label and the confidence is
\* the mean confidence; the three component scores are the component means
\* in both cases.
C22_Aggregate ==
  nli_aggregated # Null =>
    LET a == nli_aggregated[1]
    IN /\ nli_results # <<>>
       /\ C22_Dominated =>
            /\ a.label = "contradiction"
            /\ \E r \in Range(nli_results) :
                 /\ r.label = "contradiction"
                 /\ a.confidence.sum = a.confidence.count * r.confidence
            /\ \A r \in Range(nli_results) :
                 r.label = "contradiction" =>
                   a.confidence.count * r.confidence <= a.confidence.sum
       /\ ~C22_Dominated =>
            /\ \A l \in {"entailment", "neutral", "contradiction"} :
                 C22_Count(l) <= C22_Count(a.label)
            /\ C22_IsMean(a.confidence, "confidence")
       /\ C22_IsMean(a.entailment_score, "entailment_score")
       /\ C22_IsMean(a.neutral_score, "neutral_score")
       /\ C22_IsMean(a.contradiction_score, "contradiction_score")

\* the aggregate is a contradiction at 0.9 although contradiction is not the
\* majority label and another contradiction has a lower confidence, or
\* another result is no contradiction
C22_Witness ==
  /\ nli_aggregated # Null
  /\ nli_aggregated[1].label = "contradiction"
  /\ nli_aggregated[1].confidence = Quotient(Hundredths(90), 1)
  /\ C22_Count("entailment") >= C22_Count("contradiction")
  /\ Len(nli_results) >= 2

(***************************************************************************)
(* Properties of the heuristic similarity.                                 *)
(***************************************************************************)
\* the ratio is 1
C23_IsOne(r) == r.num = r.den /\ r.den # 0

\* the two ratios are the same number
C23_Same(r1, r2) == r1.num * r2.den = r2.num * r1.den

\* C23: in heuristic mode, for every text t with at least one token (a run of
\* two or more letters) the similarity of t with itself is exactly 1.0, each of
\* the TF-IDF cosine, character n-gram and token Jaccard components being 1.0,
\* and similarity(a, b) = similarity(b, a) for any two texts.
C23_ReflexiveSymmetric ==
  /\ (sim_result # Null /\ sim_text1 = sim_text2 /\ Tokenize(sim_text1) # {}) =>
       /\ C23_IsOne(sim_result[1].tfidf_squared)
       /\ C23_IsOne(sim_result[1].ngram)
       /\ C23_IsOne(sim_result[1].jaccard)
  /\ sim_previous # Null =>
       /\ sim_result[1].tokenized = sim_previous[1].tokenized
       /\ C23_Same(sim_result[1].tfidf_squared, sim_previous[1].tfidf_squared)
       /\ C23_Same(sim_result[1].ngram, sim_previous[1].ngram)
       /\ C23_Same(sim_result[1].jaccard, sim_previous[1].jaccard)

(***************************************************************************)
(* Properties of the model singleton.                                      *)
(***************************************************************************)
\* C24: initialization of the model singleton is single-flight: whatever the
\* interleaving of the callers that reach the getter before the model is
\* loaded, the model constructor is executed at most once in the process.
C24_SingleFlight == ml_constructions <= 1

(***************************************************************************)
(* Properties of the tier activities.                                      *)
(***************************************************************************)
C25_Returned == ta_result # Null

C25_Evidence == ta_result[1].evidence

C25_SomeFail ==
  \E i \in 1..Len(C25_Evidence) : IsLabelled(C25_Evidence[i], "fail")

C25_SomeWarning ==
  \E i \in 1..Len(C25_Evidence) : IsLabelled(C25_Evidence[i], "warning")

\* C25 as stated: for tiers 1 to 4 TierResult.passed is true exactly when no
\* evidence item is labelled fail, and only a fail-labelled evidence item
\* makes a fail_fast run stop early.
C25_PassedIffNoFail ==
  /\ C25_Returned => (ta_result[1].passed <=> ~C25_SomeFail)
  /\ ta_stops = Some(TRUE) => C25_SomeFail

\* C25: when the activity finds the rule, TierResult.passed is true exactly
\* when no evidence item is labelled fail, so a tier with only pass and warning
\* evidence passes and never stops a fail_fast run early, and the run stops
\* early exactly when fail_fast is set and some item is labelled fail; when
\* the activity does not find the rule, passed is false although the only
\* evidence item is an error item that carries no label, and a fail_fast run
\* stops early.
C25_PassedUnlessFailOrNotFound ==
  /\ C25_Returned /\ ta_rule_found =>
       /\ ta_result[1].passed <=> ~C25_SomeFail
       /\ ta_stops # Null => (ta_stops[1] <=> (ta_fail_fast /\ C25_SomeFail))
  /\ C25_Returned /\ ~ta_rule_found =>
       /\ ~ta_result[1].passed
       /\ ~C25_SomeFail
       /\ ta_stops # Null => (ta_stops[1] <=> ta_fail_fast)

\* a tier with a warning and no fail passed and did not stop a fail_fast run
C25_Witness ==
  /\ C25_Returned
  /\ ta_rule_found
  /\ C25_SomeWarning
  /\ ~C25_SomeFail
  /\ ta_fail_fast
  /\ ta_result[1].passed
  /\ ta_stops = Some(FALSE)

(***************************************************************************)
(* Properties of skip_tier signals that arrive late.                       *)
(***************************************************************************)
\* tiers signalled only after their activity was dispatched
C26_Late == rv_skip_tiers \ (rv_input.skip_tiers \cup rv_timely_skips)

\* the returned result at position i is waiting for the workflow to resume
C26_Pending(i) ==
  /\ i = Len(rv_returned)
  /\ rv_pc = "tier"
  /\ rv_call.state = "ok"
  /\ Len(rv_tier_results) = i - 1

C26_LateResultCounts ==
  \A i \in 1..Len(rv_returned) :
    rv_returned[i].tier \in C26_Late =>
      /\ C26_Pending(i) \/
           /\ i <= Len(rv_tier_results)
           /\ rv_tier_results[i] = rv_returned[i]
      /\ rv_output # Null =>
           LET out == rv_output[1]
           IN /\ i <= Len(out.tier_results)
              /\ out.tier_results[i] = rv_returned[i]
              /\ out.status = "completed" =>
                   /\ out.tier_results = rv_returned
                   /\ out.overall_score = AvgScore(rv_returned)
                   /\ out.overall_passed = OverallPassed(rv_returned)
                   /\ ~rv_returned[i].passed => ~out.overall_passed
                   /\ rv_input.fail_fast /\ ~rv_returned[i].passed =>
                        /\ out.stopped_early
                        /\ out.stop_reason = Some(StopReason(rv_returned[i].tier))
                        /\ i = Len(out.tier_results)

\* a step that delivers a signal leaves all but the skip set as it was
C26_HandlerStep ==
  rv_signals' # rv_signals =>
    UNCHANGED <<rv_input, rv_pc, rv_status, rv_current_tier, rv_tier_results,
                rv_tiers_completed, rv_tiers_remaining, rv_stopped_early,
                rv_stop_reason, rv_error, rv_iter, rv_call, rv_call_name,
                rv_output, rv_dispatched, rv_returned>>

\* C26: a skip_tier(N) signal delivered after tier N's activity was dispatched
\* has no effect on tier N: its result is still appended to tier_results,
\* counts in overall_score and overall_passed and can still stop a fail_fast
\* run early; the signal handler changes nothing but the skip set.
C26_LateSkipIgnored == []C26_LateResultCounts /\ [][C26_HandlerStep]_vars

\* a fail_fast run stopped early by the failed result of a tier that was
\* signalled while its activity was in flight
C26_Witness ==
  /\ rv_output # Null
  /\ rv_output[1].status = "completed"
  /\ rv_input.fail_fast
  /\ rv_output[1].stopped_early
  /\ Len(rv_returned) = 2
  /\ rv_returned[2].tier \in C26_Late
  /\ ~rv_returned[2].passed
  /\ rv_output[1].tier_results = rv_returned

(***************************************************************************)
(* Properties of the join over the jurisdiction evaluations.               *)
(***************************************************************************)
\* the run has not got past the join yet
C27_BeforeJoin == cc_pc \in {"init", "resolving", "gather"}

C27_NothingReported ==
  cc_completed_jurisdictions = 0 /\ cc_jurisdiction_results = <<>>

C27_AllReported ==
  /\ cc_completed_jurisdictions = cc_total_jurisdictions
  /\ Len(cc_jurisdiction_results) = cc_total_jurisdictions

\* evaluation calls that failed for good
C27_FailedEvaluations ==
  {c \in EvaluationCalls(cc_total_jurisdictions) : cc_calls[c].state = "failed"}

C27_JoinedState ==
  /\ C27_BeforeJoin => C27_NothingReported
  /\ ~C27_BeforeJoin /\ cc_pc # "done" => C27_AllReported
  /\ C27_NothingReported \/ C27_AllReported
  /\ cc_output # Null /\ C27_FailedEvaluations # {} =>
       /\ cc_output[1].status = "failed"
       /\ cc_output[1].jurisdiction_results = <<>>
       /\ cc_output[1].overall_status = "blocked"

\* the results and the counter change only in the step that resumes the run
\* from the join, when every evaluation has returned
C27_JoinStep ==
  \/ UNCHANGED <<cc_jurisdiction_results, cc_completed_jurisdictions>>
  \/ /\ cc_pc = "gather"
     /\ \A c \in EvaluationCalls(cc_total_jurisdictions) : cc_calls[c].state = "ok"
     /\ cc_completed_jurisdictions' = cc_total_jurisdictions
     /\ Len(cc_jurisdiction_results') = cc_total_jurisdictions

C28_AllSkipped ==
  \A t \in VerificationTier : t <= rv_input.max_tier => t \in C1_Skipped

\* C28: if every tier up to max_tier is skipped (listed in the input or
\* signalled in time), no tier activity is dispatched and the run, once the
\* rule is loaded, completes with status completed, tier_results empty,
\* overall_score 0.0, highest_tier_passed null, stopped_early false and
\* overall_passed true; the only other way it ends is the failure of the load.
C28_NothingRanYetPassed ==
  C28_AllSkipped =>
    /\ DispatchedTiers = {}
    /\ rv_pc \in {"init", "load", "done"}
    /\ rv_output # Null =>
         LET out == rv_output[1]
         IN IF out.status = "completed"
            THEN /\ rv_status = "completed"
                 /\ out.tier_results = <<>>
                 /\ out.overall_score.num = 0
                 /\ out.highest_tier_passed = Null
                 /\ ~out.stopped_early
                 /\ out.stop_reason = Null
                 /\ out.overall_passed
            ELSE /\ out.status = "failed"
                 /\ rv_call_name = Some(load_rule_activity)
                 /\ rv_call.state = "failed"

\* a completed run with max_tier 1 whose tier 0 was listed in the input and
\* whose tier 1 was signalled in time
C28_Witness ==
  /\ rv_output # Null
  /\ rv_output[1].status = "completed"
  /\ rv_input.max_tier = 1
  /\ rv_input.skip_tiers = {0}
  /\ 1 \in rv_timely_skips
  /\ C28_AllSkipped
  /\ rv_output[1].tier_results = <<>>
  /\ rv_output[1].overall_passed

(***************************************************************************)
(* Properties of a drift sweep that is given no rule ids.                  *)
(***************************************************************************)
\* input.rule_ids is None or the empty list
C29_NoIds == dd_input.rule_ids \in {Null, Some(<<>>)}

\* C29: a run whose input.rule_ids is the empty list behaves as one whose
\* input.rule_ids is null: its first step awaits get_all_rule_ids_activity, no
\* drift check is dispatched before that call returned, the rules it then
\* checks are the whole corpus, and when it completes rules_checked is the
\* size of the corpus, not zero.
C29_EmptyListMeansAll ==
  C29_NoIds =>
    /\ dd_pc = "get_ids" =>
         /\ dd_call.state # "none"
         /\ dd_rule_ids = <<>>
         /\ dd_dispatched = <<>>
    /\ dd_pc \in {"batch", "notify"} =>
         /\ dd_rule_ids = AllRuleIds
         /\ dd_total_rules = CorpusSize
         /\ dd_dispatched # <<>>
         /\ dd_dispatched[1] = Batch(AllRuleIds, 0)
    /\ dd_output # Null =>
         IF dd_output[1].status = "completed"
         THEN /\ dd_rule_ids = AllRuleIds
              /\ dd_output[1].rules_checked = CorpusSize
              /\ Len(dd_output[1].drift_results) = CorpusSize
         ELSE dd_output[1].status = "failed"

\* a completed sweep of the whole corpus whose input listed no rule
C29_Witness ==
  /\ dd_input.rule_ids = Some(<<>>)
  /\ dd_output # Null
  /\ dd_output[1].status = "completed"
  /\ dd_output[1].rules_checked = CorpusSize
  /\ dd_rule_ids = AllRuleIds

(***************************************************************************)
(* Properties of the aggregate of heuristic results.                       *)
(***************************************************************************)
\* every result is what _classify_heuristic returns for its hypothesis
C30_AllHeuristic ==
  \A i \in 1..Len(nli_results) :
    nli_results[i] = ClassifyHeuristic(nli_premise, nli_hypotheses[i])

\* C30: when every result comes from the heuristic classifier, every
\* contradiction among them has confidence exactly 0.6, so no result is a
\* contradiction of confidence above 0.6; the aggregate label is then the
\* majority label, ties going to entailment before neutral before
\* contradiction, the confidence is the mean confidence, and one
\* contradiction with two neutral results aggregates to neutral.
C30_HeuristicMajority ==
  nli_aggregated # Null /\ C30_AllHeuristic =>
    LET a == nli_aggregated[1]
        e == C22_Count("entailment")
        n == C22_Count("neutral")
        c == C22_Count("contradiction")
    IN /\ \A r \in Range(nli_results) :
            r.label = "contradiction" => r.confidence = Hundredths(60)
       /\ ~C22_Dominated
       /\ a.label = "entailment" <=> (e >= n /\ e >= c)
       /\ a.label = "neutral" <=> (n > e /\ n >= c)
       /\ a.label = "contradiction" <=> (c > e /\ c > n)
       /\ C22_IsMean(a.confidence, "confidence")
       /\ (c = 1 /\ n = 2) => a.label = "neutral"

\* one heuristic contradiction and two heuristic neutral results aggregated
\* to neutral
C30_Witness ==
  /\ nli_aggregated # Null
  /\ C30_AllHeuristic
  /\ C22_Count("contradiction") = 1
  /\ C22_Count("neutral") = 2
  /\ nli_aggregated[1].label = "neutral"

(***************************************************************************)
(* Properties of the overall status of a compliance check.                 *)
(***************************************************************************)
C31_Results == cc_output[1].jurisdiction_results

\* C31: on a completed run the overall status is compliant exactly when
\* there is at least one jurisdiction result and every result is compliant;
\* it is no_applicable_rules exactly when there is no jurisdiction result;
\* and a non-empty list without blocked and requires_action entries but with
\* a no_applicable_rules entry, even when every entry is one, yields
\* requires_action.
C31_CompliantOnlyIfAll ==
  (cc_pc = "done" /\ cc_status = "completed") =>
    LET overall == cc_output[1].overall_status
        n == Len(C31_Results)
    IN /\ overall = "compliant" <=>
            (n > 0 /\ \A i \in 1..n : C31_Results[i] = "compliant")
       /\ overall = "no_applicable_rules" <=> n = 0
       /\ ( /\ n > 0
            /\ \A i \in 1..n : C31_Results[i] \notin {"blocked", "requires_action"}
            /\ \E i \in 1..n : C31_Results[i] = "no_applicable_rules" )
            => overall = "requires_action"

\* a completed run all of whose jurisdictions had no applicable rule
C31_Witness ==
  /\ cc_pc = "done"
  /\ cc_status = "completed"
  /\ Len(C31_Results) = 2
  /\ \A i \in 1..2 : C31_Results[i] = "no_applicable_rules"
  /\ cc_output[1].overall_status = "requires_action"

(***************************************************************************)
(* Termination of the four workflows.                                      *)
(***************************************************************************)
C32_Terminal(pc, status, output) ==
  /\ pc = "done"
  /\ status \in {"completed", "failed"}
  /\ output # Null
  /\ output[1].status = status

\* the run of the workflow at hand has returned its output
C32_Returned ==
  CASE workflow_type = "RuleVerificationWorkflow" ->
         C32_Terminal(rv_pc, rv_status, rv_output)
    [] workflow_type = "ComplianceCheckWorkflow" ->
         C32_Terminal(cc_pc, cc_status, cc_output)
    [] workflow_type = "CounterfactualAnalysisWorkflow" ->
         C32_Terminal(cf_pc, cf_status, cf_output)
    [] workflow_type = "DriftDetectionWorkflow" ->
         C32_Terminal(dd_pc, dd_status, dd_output)

\* C32: when every dispatched activity attempt eventually returns, fails or
\* times out and the workflow body resumes whenever it can, every run of each
\* of the four workflows eventually has a terminal status, completed or
\* failed, and has returned its output, and stays so, whatever skip signals
\* arrive.
C32_EventuallyTerminal == <>[]C32_Returned

\* a run that failed after the last of the attempts the policy allows
C32_Witness ==
  /\ C32_Returned
  /\ workflow_type = "DriftDetectionWorkflow"
  /\ dd_status = "failed"
  /\ dd_input.rule_ids = Null

(***************************************************************************)
(* What a progress query of RuleVerificationWorkflow can see.             *)
(***************************************************************************)
C33_Completed == Range(rv_tiers_completed)

C33_Remaining == Range(rv_tiers_remaining)

\* C33: at every point where a progress query can run, tiers_completed and
\* tiers_remaining are disjoint and hold only tiers up to max_tier,
\* tiers_completed lists the tiers of tier_results in the same order,
\* current_tier when not null is a member of tiers_remaining, and on a
\* completed run that did not stop early tiers_remaining is empty.
C33_ProgressSnapshot ==
  /\ C33_Completed \cap C33_Remaining = {}
  /\ \A t \in C33_Completed \cup C33_Remaining : t <= rv_input.max_tier
  /\ Len(rv_tiers_completed) = Len(rv_tier_results)
  /\ \A i \in 1..Len(rv_tier_results) :
       rv_tiers_completed[i] = rv_tier_results[i].tier
  /\ rv_current_tier # Null => rv_current_tier[1] \in C33_Remaining
  /\ (rv_status = "completed" /\ ~rv_stopped_early) => rv_tiers_remaining = <<>>

\* suspended on the third tier with two tiers completed and one yet to come
C33_Witness ==
  /\ rv_pc = "tier"
  /\ rv_status = "running"
  /\ rv_tiers_completed = <<0, 1>>
  /\ rv_current_tier = Some(2)
  /\ rv_tiers_remaining = <<2, 3>>

(***************************************************************************)
(* Symmetry of the Tier-4 checks.                                          *)
(***************************************************************************)
\* the checker holds exactly one related rule, of another id than the rule
C34_OneOther ==
  /\ xr_rule # Null
  /\ Len(xr_related_rules) = 1
  /\ xr_related_rules[1].rule_id # xr_rule[1].rule_id

\* the evidence agrees in label and score
C34_Same(e1, e2) == e1.label = e2.label /\ e1.score = e2.score

\* C34: for rules A and B of different rule_ids, check_contradiction,
\* check_hierarchy and check_temporal_consistency each return the same label
\* and score for A against the corpus [B] as for B against the corpus [A].
C34_Symmetric ==
  C34_OneOther =>
    LET a == xr_rule[1]
        b == xr_related_rules[1]
    IN /\ xr_contradiction # Null =>
            C34_Same(xr_contradiction[1].evidence,
                     CheckContradiction(b, <<a>>).evidence)
       /\ xr_hierarchy # Null =>
            C34_Same(xr_hierarchy[1].evidence, CheckHierarchy(b, <<a>>).evidence)
       /\ xr_temporal # Null =>
            C34_Same(xr_temporal[1].evidence,
                     CheckTemporalConsistency(b, <<a>>).evidence)

\* the three checks were run on a pair of rules and none of them passed
C34_Witness ==
  /\ C34_OneOther
  /\ xr_contradiction # Null
  /\ xr_hierarchy # Null
  /\ xr_temporal # Null
  /\ xr_contradiction[1].evidence.label = "fail"
  /\ xr_hierarchy[1].evidence.label = "warning"
  /\ xr_temporal[1].evidence.label = "warning"

(***************************************************************************)
(* Properties of the drift notification.                                   *)
(***************************************************************************)
\* the drift results with has_drift set, of the results recorded so far
C35_Drifting == SelectSeq(dd_drift_results, LAMBDA r : r.has_drift)

\* every batch has been joined
C35_AllJoined ==
  /\ Len(dd_drift_results) = Len(dd_rule_ids)
  /\ dd_checked_rules = Len(dd_rule_ids)
  /\ DDInFlight = {}

C35_NotifyState ==
  /\ dd_pc = "notify" =>
       /\ dd_input.notify_on_drift
       /\ C35_Drifting # <<>>
       /\ dd_drift_detected = Len(C35_Drifting)
       /\ C35_AllJoined
       /\ dd_call.state = "ok" => dd_call.result = Some(Len(C35_Drifting))
  /\ dd_notifications_sent # 0 =>
       /\ dd_status = "completed"
       /\ dd_input.notify_on_drift
       /\ dd_notifications_sent = Len(C35_Drifting)
  /\ (dd_output # Null /\ dd_output[1].status = "completed") =>
       dd_output[1].notifications_sent =
         IF dd_input.notify_on_drift THEN Len(C35_Drifting) ELSE 0

\* the step that ends the batch loop dispatches the notification exactly when
\* it is asked for and there is drift; a notification is awaited once, and
\* nothing follows it but the end of the run
C35_NotifyStep ==
  /\ (dd_pc # "notify" /\ dd_pc' = "notify") =>
       /\ dd_pc \in {"init", "get_ids", "batch"}
       /\ dd_call' = NewCall
  /\ (dd_pc \notin {"notify", "done"} /\ dd_pc' = "done" /\ dd_status' = "completed") =>
       ~(dd_input.notify_on_drift /\ CountDrift(dd_drift_results') > 0)
  /\ dd_pc = "notify" => dd_pc' \in {"notify", "done"}
  /\ dd_pc = "done" => dd_pc' = "done"

\* C35: once every batch has been joined, the notification activity is
\* dispatched exactly when notify_on_drift is set and some checked rule has
\* drift; it is dispatched at most once and its count is that of the drift
\* results with has_drift set; otherwise no notification activity runs and
\* notifications_sent stays 0.
C35_NotifiedIffDrift == []C35_NotifyState /\ [][C35_NotifyStep]_vars

\* a completed sweep of the whole corpus that notified of its three drifts
C35_Witness ==
  /\ dd_output # Null
  /\ dd_output[1].status = "completed"
  /\ dd_rule_ids = AllRuleIds
  /\ dd_input.notify_on_drift
  /\ dd_output[1].notifications_sent = 3
  /\ dd_output[1].rules_with_drift = 3

(***************************************************************************)
(* Properties of the lazy model singleton in sequential execution.         *)
(***************************************************************************)
\* no two callers are inside _get_model at once
C36_Sequential ==
  \A c, o \in Callers :
    c # o => ml_pc[c] \in {"call", "done"} \/ ml_pc[o] \in {"call", "done"}

C36_Finished == {c \in Callers : ml_pc[c] = "done"}

C36_LoadedOnce ==
  /\ ml_constructions <= 1
  /\ ml_model_loaded \/ C36_Finished = {}
  /\ ~ml_available => ml_constructions = 0 /\ ml_model = Null
  /\ ml_model # Null => ml_model = Some(1)
  /\ \A c \in C36_Finished :
       /\ ml_returned[c] = Some(ml_model)
       /\ \A o \in C36_Finished : ml_returned[o] = ml_returned[c]

\* C36: in sequential execution the model is loaded lazily on first use and
\* the load is attempted at most once: after a successful load every later
\* call gets the same instance, and after a failed load or with the
\* dependency missing every later call gets no model and nothing is loaded
\* again.
C36_LoadAttemptedOnce == []C36_Sequential => []C36_LoadedOnce

\* the load failed once, and every caller got no model
C36_Witness ==
  /\ C36_Finished = Callers
  /\ ml_available
  /\ ml_constructions = 1
  /\ \A c \in Callers : ml_returned[c] = Some(Null)

(***************************************************************************)
(* Properties of the fallback from the ML path to the heuristics.          *)
(***************************************************************************)
\* the ML path was selected, and there was no model or the model call raised
C37_FellBack ==
  /\ fb_result # Null
  /\ fb_use_ml
  /\ fb_model = Null \/ fb_inference = Null

\* what the heuristic path gives for the same texts
C37_Heuristic ==
  IF fb_checker = "nli" THEN ClassifyHeuristic(fb_text1, fb_text2)
  ELSE ComputeHeuristicSimilarity(fb_text1, fb_text2)

\* C37: when the ML path is selected but the model is unavailable or the ML
\* inference raises, the similarity scorer and the entailment classifier
\* return exactly the result of the heuristic path for the same inputs, and
\* no exception reaches the caller.
C37_FallsBackToHeuristic == C37_FellBack => fb_result = Some(C37_Heuristic)

\* the pipeline was there and raised on a negated hypothesis: the result is
\* the contradiction the heuristic finds
C37_Witness ==
  /\ C37_FellBack
  /\ fb_checker = "nli"
  /\ fb_model # Null
  /\ fb_text1 # fb_text2
  /\ fb_result[1].label = "contradiction"

(***************************************************************************)
(* Properties of check_rule_drift_activity.                                *)
(***************************************************************************)
\* how many evidence items satisfy a test, and how often a drift type occurs
C38_Count(seq, Test(_)) == Cardinality({i \in 1..Len(seq) : Test(seq[i])})

C38_Fails == C38_Count(rd_evidence, LAMBDA e : e.label = "fail")

C38_ReferenceWarnings ==
  C38_Count(rd_evidence,
            LAMBDA e : e.label = "warning" /\ e.category = "source_exists")

C38_Occurrences(type) == C38_Count(rd_result[1].drift_types, LAMBDA t : t = type)

\* C38: a rule absent from the store gives has_drift, drift_types
\* [rule_missing] and severity critical; otherwise each fail-labelled Tier-0
\* evidence adds schema_drift and each warning-labelled evidence of category
\* source_exists adds reference_drift, the severity is high with schema_drift,
\* else medium with reference_drift, else low with any other drift type, else
\* none, and has_drift is true exactly when drift_types is not empty.
C38_DriftClassified ==
  rd_result # Null =>
    LET r == rd_result[1]
        types == Range(r.drift_types)
    IN IF ~rd_rule_found
       THEN /\ r.has_drift
            /\ r.drift_types = <<"rule_missing">>
            /\ r.severity = "critical"
       ELSE /\ C38_Occurrences("schema_drift") = C38_Fails
            /\ C38_Occurrences("reference_drift") = C38_ReferenceWarnings
            /\ Len(r.drift_types) = C38_Fails + C38_ReferenceWarnings
            /\ r.severity = (IF "schema_drift" \in types THEN "high"
                             ELSE IF "reference_drift" \in types THEN "medium"
                             ELSE IF types # {} THEN "low"
                             ELSE "none")
            /\ r.has_drift <=> r.drift_types # <<>>

\* a rule in the store whose only finding is a source warning: medium, while
\* a warning of another category counts for nothing
C38_Witness ==
  /\ rd_result # Null
  /\ rd_rule_found
  /\ C38_ReferenceWarnings = 1
  /\ \E i \in 1..Len(rd_evidence) :
       rd_evidence[i].label = "warning" /\ rd_evidence[i].category # "source_exists"
  /\ rd_result[1].severity = "medium"
  /\ rd_result[1].drift_types = <<"reference_drift">>

(***************************************************************************)
(* Properties of check_all and check_cross_rule_consistency.               *)
(***************************************************************************)
C39_Categories == <<"no_contradiction", "hierarchy_consistent", "temporal_consistent">>

\* three items, one per category in order, all pass with score 1.0
C39_AllPass(evidence) ==
  /\ Len(evidence) = 3
  /\ \A i \in 1..3 :
       /\ evidence[i].category = C39_Categories[i]
       /\ evidence[i].label = "pass"
       /\ evidence[i].score = 10

\* C39: the Tier-4 checker returns exactly three evidence items per
\* invocation, no_contradiction, hierarchy_consistent and temporal_consistent
\* in that order, and with an empty or an absent corpus of related rules all
\* three are labelled pass with score 1.0.
C39_ThreeItemsInOrder ==
  xr_all # Null =>
    /\ Len(xr_all[1]) = 3
    /\ \A i \in 1..3 :
         /\ xr_all[1][i].category = C39_Categories[i]
         /\ xr_all[1][i].tier = 4
    /\ xr_all[1] = CheckCrossRuleConsistency(xr_rule[1], Some(xr_related_rules))
    /\ xr_related_rules = <<>> => C39_AllPass(xr_all[1])
    /\ C39_AllPass(CheckCrossRuleConsistency(xr_rule[1], Null))
    /\ C39_AllPass(CheckCrossRuleConsistency(xr_rule[1], Some(<<>>)))

\* check_all on a checker without related rules
C39_Witness ==
  /\ xr_all # Null
  /\ xr_related_rules = <<>>
  /\ C39_AllPass(xr_all[1])

====
